---- MODULE Spec2Model ----
(***************************************************************************)
(* Model of the Outlook task pane add-in (src/src/taskpane/taskpane.ts),   *)
(* of its record client (src/src/services/airtableClient.ts) and of the    *)
(* backend proxy function (src/unnamed/part_000).                          *)
(*                                                                         *)
(* The pane runs on one event loop.  Every action below is one synchronous *)
(* run of code: from the point where a handler is entered, or where an     *)
(* awaited promise settles, up to the next await.  A response is delivered *)
(* together with its body (the awaits of resp.json() / resp.text() are     *)
(* folded into the arrival of the response; a failure to read the body is  *)
(* the outcome "throw").                                                   *)
(*                                                                         *)
(* Nine specifications share the variables:                                *)
(*   Spec          the submission handlers, the delivery pipeline and the  *)
(*                 credential broker;                                      *)
(*   SpecLinks     getLinksFromBody and filterLink on the bodies of        *)
(*                 messages;                                               *)
(*   SpecTitles    fetchLinkTitles and the title cache;                    *)
(*   SpecResolver  resolveExternalAssignees on the loaded options;         *)
(*   SpecHydrate   hydrateContext and the two requests of the body text;   *)
(*   SpecOwner     the owner of a task: getSelectedInternalOwnerId,        *)
(*                 getSelectedInternalOwnerEmail and createTask;           *)
(*   SpecList      listRecords and the pages of the backend;               *)
(*   SpecSubmit    the three submit handlers, executeWithStatus and        *)
(*                 createRecord;                                           *)
(*   SpecProxy     the backend proxy function.                             *)
(* Each leaves the variables of the others at their initial values.        *)
(***************************************************************************)
EXTENDS Naturals, Sequences, FiniteSets, TLC

\* ------------------------------------------------------------------ bounds
\* Largest number of attachment check boxes ticked in one submission.
MaxSelected == 2
\* Largest number of pieces of text in an enumerated message body.
MaxBodyLen == 5
\* Largest number of evaluations of getLinksFromBody on one message.
MaxRuns == 2
\* Largest number of tokens in the argument of resolveExternalAssignees.
MaxEntries == 3
\* Largest number of form submissions in one session of the pane.
MaxSubmits == 3
\* Largest number of pages the backend holds for a listed table.
MaxPages == 3

\* ------------------------------------------------------------ value domain
\* A string-like value received from a collaborator (a URL, a payload, an
\* access token).  `kind` says what the value is, `of` what it belongs to.
Val(k, a) == [kind |-> k, of |-> a]
\* The empty string / undefined / null: the values JavaScript treats as falsy.
Empty == Val("empty", "none")
Truthy(v) == v # Empty

\* Access tokens the identity provider may hand out.
Tokens == {Val("token", "T1"), Val("token", "T2")}

\* The two submission handlers that run the delivery pipeline.
Handlers == {"task", "document"}

\* ------------------------------------------------------- the host message
\* let attachments: the attachment list of the message (extractAttachments).
attachments ==
    << [id |-> "a1", name |-> "report.pdf", isInline |-> FALSE],
       [id |-> "a2", name |-> "cloud.docx", isInline |-> FALSE],
       [id |-> "a3", name |-> "notes.txt",  isInline |-> FALSE],
       [id |-> "a4", name |-> "logo.png",   isInline |-> TRUE ] >>

AttIds == {attachments[i].id : i \in DOMAIN attachments}

\* What getAttachmentContentAsync may report for each attachment of the
\* message.  a1 is an embedded payload (well-formed or not decodable by atob),
\* a2 an opaque reference, a3 an attachment the host serves unreliably.
HostResults(id) ==
    CASE id = "a1" ->
           { [status |-> "succeeded", format |-> "base64", content |-> Val("payload", id)],
             [status |-> "succeeded", format |-> "base64", content |-> Val("badpayload", id)] }
      [] id = "a2" ->
           { [status |-> "succeeded", format |-> "url", content |-> Val("ref", id)] }
      [] id = "a3" ->
           { [status |-> "succeeded", format |-> "base64", content |-> Val("payload", id)],
             [status |-> "succeeded", format |-> "url", content |-> Empty],
             [status |-> "succeeded", format |-> "base64", content |-> Empty],
             [status |-> "succeeded", format |-> "ics", content |-> Val("ical", id)],
             [status |-> "failed", format |-> "none", content |-> Empty] }
      [] OTHER ->
           { [status |-> "succeeded", format |-> "url", content |-> Val("ref", id)] }

\* ------------------------------------------------------------------- state
VARIABLES
    cachedGraphToken,  \* let cachedGraphToken: Empty when null
    msalInstance,      \* let msalInstance: TRUE once the client is constructed
    config,            \* GRAPH_CLIENT_ID / GRAPH_REDIRECT_URI / GRAPH_TENANT_ID non-empty
    pc,                \* per handler: where its asynchronous run is suspended
    selected,          \* per handler: the argument of prepareAirtableAttachments
    idx,               \* per handler: position of the for-loop in selected
    results,           \* per handler: const results
    graphToken,        \* per handler: value getGraphToken returned / const graphToken
    content,           \* per handler: const content of the current iteration
    uploadedWebUrl,    \* per handler: uploaded?.webUrl of the current upload
    scopeIdx,          \* per handler: position of the for-loop in shareScopes
    started,           \* history: loop positions whose content was requested
    outcome,           \* history: terminal state of each finished loop position
    calls,             \* history: upload-path requests sent for the current attachment
    lastUrl,           \* history: URL carried by the response a handler has just handled
    idpLog,            \* history: steps the current getGraphToken call has taken
                       \*   and how the call ended ("threw", or the token's name)
    cacheAtCall,       \* history: cachedGraphToken when the current call started
    body,              \* text of the message body, as getBodyAsText delivers it
    detectedLinks,     \* let detectedLinks
    linkRuns,          \* history: number of evaluations of getLinksFromBody
    titleProxy,        \* LINK_TITLE_PROXY is non-empty
    linkTitleCache,    \* const linkTitleCache: link -> title, Empty when absent
    lookups,           \* per fetchLinkTitles call and link: the state of its lookup
    batchPc,           \* per fetchLinkTitles call: where its promise stands
    externalOptions,   \* let externalOptions
    rawEntries,        \* the argument of resolveExternalAssignees
    assigneeIds,       \* what resolveExternalAssignees returned
    resolverPc,        \* where the loading of the options and the resolution stand
    hydratePc,         \* where the promise of hydrateContext stands
    titlePending,      \* hydrateContext waits for the lookups of fetchLinkTitles
    paneSteps,         \* history: the parts of hydrateContext that have run
    backendToken,      \* hasValidToken(): a proxy URL or an access token is configured
    submitPc,          \* per form: where its submit handler stands
    status,            \* per form: data-state of its status element
    response,          \* history, per form: how createRecord ended in each submission
    submits,           \* history: number of submissions so far
    collaboratorOptions, \* let collaboratorOptions
    ownerInput,        \* value of the input task-owner-input
    ownerField,        \* fields.fldphfDf5RxQ9zOjt of the task being created
    ownerPc,           \* where the loading of the collaborators and createTask stand
    listPages,         \* the pages the backend holds for the listed table
    listPc,            \* where the call of listRecords stands
    listOffset,        \* let offset
    collected,         \* const collected
    listRequests,      \* history: the offset parameter of every request sent, and its answer
    listResult,        \* what listRecords returned
    proxyEnv,          \* process.env of the proxy function
    proxyReq,          \* the request the proxy function was called with
    proxyPc,           \* where the invocation of the proxy function stands
    proxyRes,          \* context.res
    upstream           \* history: the requests sent to api.airtable.com

pipelineVars == << cachedGraphToken, msalInstance, config, pc, selected, idx, results,
                   graphToken, content, uploadedWebUrl, scopeIdx, started, outcome,
                   calls, lastUrl, idpLog, cacheAtCall >>
linkVars     == << body, detectedLinks, linkRuns >>
titleVars    == << titleProxy, linkTitleCache, lookups, batchPc >>
resolverVars == << externalOptions, rawEntries, assigneeIds, resolverPc >>
hydrateVars  == << hydratePc, titlePending, paneSteps >>
submitVars   == << backendToken, submitPc, status, response, submits >>
ownerVars    == << collaboratorOptions, ownerInput, ownerField, ownerPc >>
listVars     == << listPages, listPc, listOffset, collected, listRequests, listResult >>
proxyVars    == << proxyEnv, proxyReq, proxyPc, proxyRes, upstream >>
\* The state of the record client, of the forms and of the backend proxy.
formVars     == << hydrateVars, submitVars, ownerVars, listVars, proxyVars >>
\* What the submission handlers of the delivery pipeline leave alone.
paneVars     == << linkVars, titleVars, resolverVars, formVars >>

vars == << pipelineVars, linkVars, titleVars, resolverVars, formVars >>

globalVars == << cachedGraphToken, msalInstance, config >>
tokenVars  == << cachedGraphToken, msalInstance, idpLog, cacheAtCall, graphToken >>
loopVars   == << idx, results, content, uploadedWebUrl, scopeIdx, started, outcome, calls >>

NoContent == [type |-> "none", value |-> Empty]

\* Two calls of fetchLinkTitles, which may be in progress at the same time.
Batches == {"first", "second"}

\* The links whose titles are looked up.
TitleLinks == {"l1", "l2"}

\* let detectedLinks = [] and no evaluation of getLinksFromBody yet.
LinksIdle ==
    /\ body = << >>
    /\ detectedLinks = << >>
    /\ linkRuns = 0

\* const linkTitleCache = {} and no call of fetchLinkTitles yet.
NoTitles ==
    /\ linkTitleCache = [l \in TitleLinks |-> Empty]
    /\ lookups = [b \in Batches |-> [l \in TitleLinks |-> "none"]]
    /\ batchPc = [b \in Batches |-> "idle"]

TitlesIdle == titleProxy = FALSE /\ NoTitles

\* let externalOptions = [] and no call of resolveExternalAssignees yet.
ResolverIdle ==
    /\ externalOptions = << >>
    /\ rawEntries = << >>
    /\ assigneeIds = << >>
    /\ resolverPc = "idle"

\* The three forms of the pane, each with a status element of its own.
Forms == {"task", "document", "note"}

\* hydrateContext has not been called.
HydrateIdle ==
    /\ hydratePc = "idle"
    /\ titlePending = FALSE
    /\ paneSteps = {}

\* No form has been submitted.
NoSubmission ==
    /\ submitPc = [f \in Forms |-> "idle"]
    /\ status = [f \in Forms |-> "none"]
    /\ response = [f \in Forms |-> << >>]
    /\ submits = 0

SubmitIdle == backendToken = TRUE /\ NoSubmission

\* let collaboratorOptions = [] and no task being created.
OwnerIdle ==
    /\ collaboratorOptions = << >>
    /\ ownerInput = << >>
    /\ ownerField = Empty
    /\ ownerPc = "idle"

\* No call of listRecords.
NoListing ==
    /\ listPc = "idle"
    /\ listOffset = Empty
    /\ collected = << >>
    /\ listRequests = << >>
    /\ listResult = Empty

ListIdle == listPages = << >> /\ NoListing

\* The proxy function has not been invoked.
NoInvocation ==
    /\ proxyPc = "idle"
    /\ proxyRes = Empty
    /\ upstream = << >>

ProxyIdle ==
    /\ proxyEnv = [pat |-> FALSE, allowlist |-> << >>]
    /\ proxyReq = [path |-> << >>, method |-> "GET"]
    /\ NoInvocation

FormsIdle == HydrateIdle /\ SubmitIdle /\ OwnerIdle /\ ListIdle /\ ProxyIdle

\* GRAPH_CLIENT_ID, GRAPH_REDIRECT_URI and GRAPH_TENANT_ID are all set.
ConfigComplete == config = [clientId |-> TRUE, redirectUri |-> TRUE, tenantId |-> TRUE]

\* The delivery pipeline before the first submission.
PipelineIdle ==
    /\ cachedGraphToken = Empty
    /\ msalInstance = FALSE
    /\ pc = [p \in Handlers |-> "idle"]
    /\ selected = [p \in Handlers |-> << >>]
    /\ idx = [p \in Handlers |-> 0]
    /\ results = [p \in Handlers |-> << >>]
    /\ graphToken = [p \in Handlers |-> Empty]
    /\ content = [p \in Handlers |-> NoContent]
    /\ uploadedWebUrl = [p \in Handlers |-> Empty]
    /\ scopeIdx = [p \in Handlers |-> 0]
    /\ started = [p \in Handlers |-> {}]
    /\ outcome = [p \in Handlers |-> << >>]
    /\ calls = [p \in Handlers |-> {}]
    /\ lastUrl = [p \in Handlers |-> Empty]
    /\ idpLog = [p \in Handlers |-> << >>]
    /\ cacheAtCall = [p \in Handlers |-> Empty]

\* The task pane when a submission handler may first run.  The variables of
\* the link extraction, of the title lookup and of the reference resolution
\* hold the values of their declarations; the pipeline does not read them.
Init ==
    /\ config \in [clientId : BOOLEAN, redirectUri : BOOLEAN, tenantId : BOOLEAN]
    /\ PipelineIdle
    /\ FormsIdle
    /\ LinksIdle
    /\ TitlesIdle
    /\ ResolverIdle


\* ----------------------------------------------------------- pure helpers
\* Mutant: the filter lets every attachment through.
IsEligible_All(att) == TRUE

\* getEligibleAttachments(): attachments.filter((att) => !att.isInline)
IsEligible(att) == ~att.isInline
getEligibleAttachments == SelectSeq(attachments, IsEligible)

\* The check boxes renderAttachmentGroups and renderDocumentAttachmentSelect
\* create: one per element of getEligibleAttachments().
RenderedChoices == getEligibleAttachments

\* getSelectedAttachments / the filter of handleDocumentSubmit:
\* eligible.filter((att) => selectedIds.includes(att.id))
getSelectedAttachments(selectedIds) ==
    LET IsTicked(att) == att.id \in selectedIds
    IN  SelectSeq(getEligibleAttachments, IsTicked)

\* Mutant: the two format tests are swapped.
ClassifyContent_FormatsSwapped(result) ==
    IF result.status = "succeeded"
    THEN IF result.format = "base64" /\ Truthy(result.content)
         THEN [type |-> "url", value |-> result.content]
         ELSE IF result.format = "url" /\ Truthy(result.content)
              THEN [type |-> "base64", value |-> result.content]
              ELSE [type |-> "unsupported", value |-> Empty]
    ELSE [type |-> "unsupported", value |-> Empty]

\* Mutant: the `&& result.value.content` tests are missing.
ClassifyContent_NoContentCheck(result) ==
    IF result.status = "succeeded"
    THEN IF result.format = "url"
         THEN [type |-> "url", value |-> result.content]
         ELSE IF result.format = "base64"
              THEN [type |-> "base64", value |-> result.content]
              ELSE [type |-> "unsupported", value |-> Empty]
    ELSE [type |-> "unsupported", value |-> Empty]

\* The callback of getAttachmentContentAsync: the tagged content the promise
\* resolves with.
ClassifyContent(result) ==
    IF result.status = "succeeded"
    THEN IF result.format = "url" /\ Truthy(result.content)
         THEN [type |-> "url", value |-> result.content]
         ELSE IF result.format = "base64" /\ Truthy(result.content)
              THEN [type |-> "base64", value |-> result.content]
              ELSE [type |-> "unsupported", value |-> Empty]
    ELSE [type |-> "unsupported", value |-> Empty]

\* results.push({ filename: attachment.name, url: content.value })
ReferenceResult(att, c) == [filename |-> att.name, url |-> c.value]

\* Mutant: results.unshift(x)
PushResult_Unshift(res, x) == << x >> \o res

\* results.push(x)
PushResult(res, x) == Append(res, x)

\* Mutant: selected.forEach(async ...): the loop does not wait for an
\* iteration before it starts the next ones.
ContentRequests_AllAtOnce(sel, i) == i..Len(sel)

\* for (const attachment of selected) { const content = await ... }: the
\* content requests issued when the loop reaches position i.
ContentRequests(sel, i) == {i}

\* Mutant: the test of the token is missing.
NoGraphToken_Never(tok) == FALSE

\* if (!graphToken) in prepareAirtableAttachments
NoGraphToken(tok) == ~Truthy(tok)

\* Mutant: the memoized token is never used.
CacheHit_Never(cached) == FALSE

\* if (cachedGraphToken) return cachedGraphToken;
CacheHit(cached) == Truthy(cached)

\* Mutant: the tenant is not tested.
ConfigMissing_NoTenantCheck(cfg) == ~cfg.clientId \/ ~cfg.redirectUri

\* if (!GRAPH_CLIENT_ID || !GRAPH_REDIRECT_URI || !GRAPH_TENANT_ID)
ConfigMissing(cfg) == ~cfg.clientId \/ ~cfg.redirectUri \/ ~cfg.tenantId

\* base64ToArrayBuffer: atob throws on text that is not base64.
Decodable(payload) == payload.kind = "payload"

\* const shareScopes = ["anonymous", "organization"];
shareScopes == << "anonymous", "organization" >>

\* Mutant: uploaded?.webUrl || linkBody?.link?.webUrl
ShareLinkUrl_WebUrlFirst(linkWebUrl, webUrl) == IF Truthy(webUrl) THEN webUrl ELSE linkWebUrl

\* const url = linkBody?.link?.webUrl || uploaded?.webUrl;
ShareLinkUrl(linkWebUrl, webUrl) == IF Truthy(linkWebUrl) THEN linkWebUrl ELSE webUrl

\* Name of the createLink request of one scope in the history of calls.
LinkCall(scope) == IF scope = "anonymous" THEN "createLink_anonymous"
                   ELSE "createLink_organization"

\* A collaborator's call that rejects or throws.
Thrown == Val("thrown", "none")

\* What a call to the identity provider may settle with: a result carrying
\* an access token, a result without one, or an exception.
IdpOutcomes == Tokens \cup {Empty, Thrown}


\* ------------------------------------------------- getGraphToken (broker)
\* getGraphToken resolves with tok; the caller resumes in TokenReturned.
ReturnToken(p, tok, log) ==
    /\ graphToken' = [graphToken EXCEPT ![p] = tok]
    /\ idpLog' = [idpLog EXCEPT ![p] = log]
    /\ pc' = [pc EXCEPT ![p] = "awaitToken"]

\* The call stays suspended in getGraphToken at the await `at`.
SuspendToken(p, at, log) ==
    /\ idpLog' = [idpLog EXCEPT ![p] = log]
    /\ pc' = [pc EXCEPT ![p] = at]
    /\ UNCHANGED graphToken

\* cachedGraphToken = result.accessToken; return cachedGraphToken;
StoreToken(p, tok, log) ==
    /\ cachedGraphToken' = tok
    /\ ReturnToken(p, tok, log)

\* Mutant: no catch block; the exception leaves getGraphToken, whose
\* promise rejects.
CatchTokenError_Rethrow(p, log) ==
    /\ idpLog' = [idpLog EXCEPT ![p] = log]
    /\ pc' = [pc EXCEPT ![p] = "rejected"]
    /\ UNCHANGED << graphToken, cachedGraphToken >>

\* catch (err) { console.error(...); return null; } around every step of
\* getGraphToken after the configuration check.
CatchTokenError(p, log) ==
    /\ ReturnToken(p, Empty, log)
    /\ UNCHANGED cachedGraphToken

\* Mutant: the silent reacquisition is never attempted.
AcquireAfterRedirect_PopupOnly(hasAccount) == "popup"

\* const accounts = msalInstance.getAllAccounts(); if (accounts.length > 0)
\* acquireTokenSilent is called, otherwise acquireTokenPopup.
AcquireAfterRedirect(hasAccount) == IF hasAccount THEN "silent" ELSE "popup"

\* The await at which getGraphToken is suspended during a step.
AwaitOf(step) == CASE step = "redirect" -> "awaitRedirect"
                   [] step = "silent"   -> "awaitSilent"
                   [] step = "popup"    -> "awaitPopup"

\* getGraphToken from its entry to its first await (or its early return).
CallGetGraphToken(p) ==
    /\ cacheAtCall' = [cacheAtCall EXCEPT ![p] = cachedGraphToken]
    /\ UNCHANGED cachedGraphToken
    /\ IF CacheHit(cachedGraphToken)
       THEN ReturnToken(p, cachedGraphToken, << >>) /\ UNCHANGED msalInstance
       ELSE IF ConfigMissing(config)
       THEN ReturnToken(p, Empty, << >>) /\ UNCHANGED msalInstance
       ELSE IF msalInstance
       THEN SuspendToken(p, AwaitOf("redirect"), << "redirect" >>) /\ UNCHANGED msalInstance
       ELSE \E built \in BOOLEAN :
              IF built
              THEN /\ msalInstance' = TRUE
                   /\ SuspendToken(p, AwaitOf("redirect"), << "construct", "redirect" >>)
              ELSE /\ UNCHANGED msalInstance
                   /\ CatchTokenError(p, << "construct", "threw" >>)

\* await msalInstance.handleRedirectPromise() settles; then getAllAccounts()
\* and the call of acquireTokenSilent or acquireTokenPopup.
RedirectSettles(p) ==
    /\ pc[p] = "awaitRedirect"
    /\ \E r \in IdpOutcomes :
         IF r = Thrown
         THEN CatchTokenError(p, Append(idpLog[p], "threw"))
         ELSE IF Truthy(r)
         THEN StoreToken(p, r, Append(idpLog[p], r.of))
         ELSE /\ UNCHANGED cachedGraphToken
              /\ \E accounts \in {"some", "none", "thrown"} :
                   IF accounts = "thrown"
                   THEN CatchTokenError(p, Append(idpLog[p], "threw"))
                   ELSE LET seen == IF accounts = "some"
                                    THEN Append(idpLog[p], "account")
                                    ELSE idpLog[p]
                            step == AcquireAfterRedirect(accounts = "some")
                        IN  SuspendToken(p, AwaitOf(step), Append(seen, step))
    /\ UNCHANGED << msalInstance, config, selected, cacheAtCall, loopVars, lastUrl >>
    /\ UNCHANGED paneVars

\* await msalInstance.acquireTokenSilent(...) settles.
SilentSettles(p) ==
    /\ pc[p] = "awaitSilent"
    /\ \E r \in IdpOutcomes :
         IF r = Thrown
         THEN CatchTokenError(p, Append(idpLog[p], "threw"))
         ELSE IF Truthy(r)
         THEN StoreToken(p, r, Append(idpLog[p], r.of))
         ELSE /\ UNCHANGED cachedGraphToken
              /\ SuspendToken(p, AwaitOf("popup"), Append(idpLog[p], "popup"))
    /\ UNCHANGED << msalInstance, config, selected, cacheAtCall, loopVars, lastUrl >>
    /\ UNCHANGED paneVars

\* await msalInstance.acquireTokenPopup(request) settles.
PopupSettles(p) ==
    /\ pc[p] = "awaitPopup"
    /\ \E r \in IdpOutcomes :
         IF r = Thrown
         THEN CatchTokenError(p, Append(idpLog[p], "threw"))
         ELSE IF Truthy(r)
         THEN StoreToken(p, r, Append(idpLog[p], r.of))
         ELSE ReturnToken(p, Empty, idpLog[p]) /\ UNCHANGED cachedGraphToken
    /\ UNCHANGED << msalInstance, config, selected, cacheAtCall, loopVars, lastUrl >>
    /\ UNCHANGED paneVars

\* --------------------------------------------- prepareAirtableAttachments
\* The locals of one loop iteration go out of scope, and with them the
\* history of the requests sent for that attachment.
DropLocals(p) ==
    /\ content' = [content EXCEPT ![p] = NoContent]
    /\ uploadedWebUrl' = [uploadedWebUrl EXCEPT ![p] = Empty]
    /\ scopeIdx' = [scopeIdx EXCEPT ![p] = 0]

\* The loop reaches position i: getAttachmentContentAsync is called.
RequestContent(p, i) ==
    /\ idx' = [idx EXCEPT ![p] = i]
    /\ started' = [started EXCEPT ![p] = @ \cup ContentRequests(selected[p], i)]
    /\ pc' = [pc EXCEPT ![p] = "awaitContent"]

\* The current attachment reaches its terminal state o with the results res:
\* `continue`, or the end of the loop body; then the next iteration or
\* return results.
Advance(p, res, o) ==
    /\ results' = [results EXCEPT ![p] = res]
    /\ outcome' = [outcome EXCEPT ![p] = Append(@, o)]
    /\ DropLocals(p)
    /\ IF idx[p] < Len(selected[p])
       THEN RequestContent(p, idx[p] + 1)
       ELSE /\ pc' = [pc EXCEPT ![p] = "done"]
            /\ UNCHANGED << idx, started >>
    /\ calls' = [calls EXCEPT ![p] = {}]

\* results.push(uploaded) after uploadToOneDriveAndShare returned a result.
Deliver(p, url) ==
    Advance(p, PushResult(results[p], [filename |-> selected[p][idx[p]].name, url |-> url]),
            "Delivered")

\* Mutant: the null of uploadToOneDriveAndShare is pushed like a result.
UploadReturnedNull_Pushed(p) ==
    Advance(p, PushResult(results[p], [filename |-> selected[p][idx[p]].name, url |-> Empty]),
            "SkippedNoUrl")

\* uploadToOneDriveAndShare returned null: the else branch, then continue.
UploadReturnedNull(p) == Advance(p, results[p], "SkippedNoUrl")

\* Mutant: no try/catch around uploadToOneDriveAndShare: the exception
\* leaves the loop and the results collected so far are lost.
CatchUploadError_Rethrow(p) ==
    /\ results' = [results EXCEPT ![p] = << >>]
    /\ outcome' = [outcome EXCEPT ![p] = Append(@, "SkippedThrew")]
    /\ DropLocals(p)
    /\ pc' = [pc EXCEPT ![p] = "done"]
    /\ calls' = [calls EXCEPT ![p] = {}]
    /\ UNCHANGED << idx, started >>

\* catch (error) around uploadToOneDriveAndShare, then continue.
CatchUploadError(p) == Advance(p, results[p], "SkippedThrew")

\* A request of the upload path is sent for the current attachment.
Issue(p, call, at) ==
    /\ calls' = [calls EXCEPT ![p] = @ \cup {call}]
    /\ pc' = [pc EXCEPT ![p] = at]
    /\ UNCHANGED << idx, results, started, outcome >>

\* A submit handler is entered with the ticked check box values `ticked`:
\* handleTaskSubmit calls prepareAirtableAttachments with the selection,
\* handleDocumentSubmit only when the selection is not empty.
Submit(p) ==
    /\ pc[p] = "idle"
    /\ \E ticked \in SUBSET AttIds :
         /\ Cardinality(ticked) <= MaxSelected
         /\ LET sel == getSelectedAttachments(ticked)
            IN  /\ selected' = [selected EXCEPT ![p] = sel]
                /\ IF sel = << >>
                   THEN /\ pc' = [pc EXCEPT ![p] = "done"]
                        /\ UNCHANGED tokenVars
                   ELSE CallGetGraphToken(p)
    /\ UNCHANGED << config, loopVars, lastUrl >>
    /\ UNCHANGED paneVars

\* const graphToken = await getGraphToken() resumes.
TokenReturned(p) ==
    /\ pc[p] = "awaitToken"
    /\ idpLog' = [idpLog EXCEPT ![p] = << >>]
    /\ cacheAtCall' = [cacheAtCall EXCEPT ![p] = Empty]
    /\ IF NoGraphToken(graphToken[p])
       THEN /\ pc' = [pc EXCEPT ![p] = "done"]
            /\ UNCHANGED << idx, started >>
       ELSE RequestContent(p, 1)
    /\ UNCHANGED << globalVars, selected, graphToken, results, content,
                    uploadedWebUrl, scopeIdx, outcome, calls, lastUrl >>
    /\ UNCHANGED paneVars

\* The callback of getAttachmentContentAsync runs and the loop body up to
\* the next await: push and continue, the call of uploadToOneDriveAndShare
\* up to its fetch of createUploadSession, or the skip.
ContentArrives(p) ==
    /\ pc[p] = "awaitContent"
    /\ \E r \in HostResults(selected[p][idx[p]].id) :
         LET c == ClassifyContent(r)
         IN  IF c.type = "url"
             THEN Advance(p, PushResult(results[p], ReferenceResult(selected[p][idx[p]], c)),
                          "Delivered")
             ELSE IF c.type = "base64"
             THEN /\ content' = [content EXCEPT ![p] = c]
                  /\ Issue(p, "createUploadSession", "awaitSession")
                  /\ UNCHANGED << uploadedWebUrl, scopeIdx >>
             ELSE Advance(p, results[p], "SkippedUnsupported")
    /\ lastUrl' = [lastUrl EXCEPT ![p] = Empty]
    /\ UNCHANGED << globalVars, selected, graphToken, idpLog, cacheAtCall >>
    /\ UNCHANGED paneVars

\* sessionResp arrives; base64ToArrayBuffer; the PUT of the bytes is sent.
SessionResponds(p) ==
    /\ pc[p] = "awaitSession"
    /\ \E r \in {"ok", "notok", "throw"} :
         IF r = "throw" \/ (r = "ok" /\ ~Decodable(content[p].value))
         THEN CatchUploadError(p)
         ELSE IF r = "notok"
         THEN UploadReturnedNull(p)
         ELSE /\ Issue(p, "upload", "awaitUpload")
              /\ UNCHANGED << content, uploadedWebUrl, scopeIdx >>
    /\ lastUrl' = [lastUrl EXCEPT ![p] = Empty]
    /\ UNCHANGED << globalVars, selected, graphToken, idpLog, cacheAtCall >>
    /\ UNCHANGED paneVars

\* What the PUT may answer: 2xx with the item (id and webUrl present or
\* not), non-2xx, or an exception.
UploadOutcomes(id) ==
    { [kind |-> "ok", hasId |-> h, webUrl |-> w] :
        h \in BOOLEAN, w \in {Val("web", id), Empty} }
    \cup { [kind |-> k, hasId |-> FALSE, webUrl |-> Empty] : k \in {"notok", "throw"} }

\* uploadResp arrives; the GET of the download URL is sent.
UploadResponds(p) ==
    /\ pc[p] = "awaitUpload"
    /\ \E r \in UploadOutcomes(selected[p][idx[p]].id) :
         IF r.kind = "throw"
         THEN CatchUploadError(p)
         ELSE IF r.kind = "notok" \/ ~r.hasId
         THEN UploadReturnedNull(p)
         ELSE /\ uploadedWebUrl' = [uploadedWebUrl EXCEPT ![p] = r.webUrl]
              /\ Issue(p, "downloadUrl", "awaitDownloadUrl")
              /\ UNCHANGED << content, scopeIdx >>
    /\ lastUrl' = [lastUrl EXCEPT ![p] = Empty]
    /\ UNCHANGED << globalVars, selected, graphToken, idpLog, cacheAtCall >>
    /\ UNCHANGED paneVars

\* What a GET or POST on the uploaded item may answer: 2xx with the URL
\* asked for (present or not), non-2xx, or an exception.
UrlOutcomes(kind, id) ==
    { [kind |-> "ok", url |-> u] : u \in {Val(kind, id), Empty} }
    \cup { [kind |-> k, url |-> Empty] : k \in {"notok", "throw"} }

\* The createLink request of the scope at position i is sent.
RequestLink(p, i) ==
    /\ scopeIdx' = [scopeIdx EXCEPT ![p] = i]
    /\ Issue(p, LinkCall(shareScopes[i]), "awaitLink")
    /\ UNCHANGED << content, uploadedWebUrl >>

\* dlResp arrives (the try/catch around it swallows its failures); the
\* direct URL is returned or the first createLink is sent.
DownloadUrlResponds(p) ==
    /\ pc[p] = "awaitDownloadUrl"
    /\ \E r \in UrlOutcomes("download", selected[p][idx[p]].id) :
         /\ lastUrl' = [lastUrl EXCEPT ![p] = r.url]
         /\ IF r.kind = "ok" /\ Truthy(r.url)
            THEN Deliver(p, r.url)
            ELSE RequestLink(p, 1)
    /\ UNCHANGED << globalVars, selected, graphToken, idpLog, cacheAtCall >>
    /\ UNCHANGED paneVars

\* The share-scope loop is left (or continued) without a link.
NextScope(p) ==
    IF scopeIdx[p] < Len(shareScopes)
    THEN RequestLink(p, scopeIdx[p] + 1)
    ELSE IF Truthy(uploadedWebUrl[p])
         THEN Deliver(p, uploadedWebUrl[p])
         ELSE UploadReturnedNull(p)

\* linkResp arrives for the current scope.
LinkResponds(p) ==
    /\ pc[p] = "awaitLink"
    /\ \E r \in UrlOutcomes(shareScopes[scopeIdx[p]], selected[p][idx[p]].id) :
         /\ lastUrl' = [lastUrl EXCEPT ![p] = r.url]
         /\ IF r.kind = "throw"
            THEN CatchUploadError(p)
            ELSE IF r.kind = "notok"
            THEN NextScope(p)
            ELSE LET url == ShareLinkUrl(r.url, uploadedWebUrl[p])
                 IN  IF Truthy(url) THEN Deliver(p, url) ELSE NextScope(p)
    /\ UNCHANGED << globalVars, selected, graphToken, idpLog, cacheAtCall >>
    /\ UNCHANGED paneVars

\* prepareAirtableAttachments has returned; the handler's run ends and the
\* form can be submitted again.
Finish(p) ==
    /\ pc[p] = "done"
    /\ pc' = [pc EXCEPT ![p] = "idle"]
    /\ selected' = [selected EXCEPT ![p] = << >>]
    /\ idx' = [idx EXCEPT ![p] = 0]
    /\ results' = [results EXCEPT ![p] = << >>]
    /\ graphToken' = [graphToken EXCEPT ![p] = Empty]
    /\ started' = [started EXCEPT ![p] = {}]
    /\ outcome' = [outcome EXCEPT ![p] = << >>]
    /\ lastUrl' = [lastUrl EXCEPT ![p] = Empty]
    /\ UNCHANGED << globalVars, calls, content, uploadedWebUrl, scopeIdx, idpLog, cacheAtCall >>
    /\ UNCHANGED paneVars

Next ==
    \E p \in Handlers :
        \/ Submit(p)
        \/ RedirectSettles(p)
        \/ SilentSettles(p)
        \/ PopupSettles(p)
        \/ TokenReturned(p)
        \/ ContentArrives(p)
        \/ SessionResponds(p)
        \/ UploadResponds(p)
        \/ DownloadUrlResponds(p)
        \/ LinkResponds(p)
        \/ Finish(p)

Spec == Init /\ [][Next]_vars


\* ======================================================== link extraction
\* A text is a sequence of pieces.  A piece is a run of characters that the
\* extraction treats as a unit: white space, a scheme, a trailing
\* punctuation character, a word, a domain name, a path, a file extension.
\* Pieces are chosen so that no string the extraction searches for straddles
\* two of them.

\* Number of characters limitBodyText keeps (its call in getLinksFromBody).
MaxScanLength == 12000

\* A run of MaxScanLength blanks.
Pad == "<blanks>"
\* What is left of a piece that the end of the scanned text cuts in two.
Fragment == "<cut>"

\* Pieces the regular expression's \S does not match.
IsSpace(piece) == piece \in {" ", Pad}

\* Pieces that match https?:\/\/ under the flag i.
IsScheme(piece) == piece \in {"http://", "https://", "HTTP://"}

\* Pieces that [).,] matches.
IsTrailing(piece) == piece \in {")", ".", ","}

\* Number of characters of a piece.
PieceLen(piece) ==
    CASE piece = Pad -> MaxScanLength
      [] piece \in {" ", ")", ".", ","} -> 1
      [] piece \in {"see", "and"} -> 3
      [] piece \in {"cid:", ".png", ".jpg", ".gif"} -> 4
      [] piece \in {"/logo", ".jpeg", Fragment} -> 5
      [] piece \in {"http://", "HTTP://", "a.com/x"} -> 7
      [] piece = "https://" -> 8
      [] piece = "/signature" -> 10
      [] piece \in {"linkedin.com", "facebook.com"} -> 12
      [] piece \in {"safelinks.protection.outlook.com",
                    "SafeLinks.Protection.Outlook.com"} -> 32

\* String.prototype.toLowerCase, piece by piece.
LowerPiece(piece) ==
    CASE piece = "HTTP://" -> "http://"
      [] piece = "SafeLinks.Protection.Outlook.com" -> "safelinks.protection.outlook.com"
      [] OTHER -> piece

toLowerCase(text) == [i \in DOMAIN text |-> LowerPiece(text[i])]

\* text.length
RECURSIVE CharLen(_)
CharLen(text) ==
    IF text = << >> THEN 0 ELSE PieceLen(Head(text)) + CharLen(Tail(text))

\* text.substring(0, n)
RECURSIVE Substring(_, _)
Substring(text, n) ==
    IF text = << >> \/ n = 0 THEN << >>
    ELSE IF PieceLen(Head(text)) <= n
    THEN << Head(text) >> \o Substring(Tail(text), n - PieceLen(Head(text)))
    ELSE IF IsSpace(Head(text)) THEN << " " >> ELSE << Fragment >>

\* Mutant: the whole text is scanned.
limitBodyText_NoLimit(text, maxLength) == text

\* limitBodyText(text, maxLength)
limitBodyText(text, maxLength) ==
    IF text = << >> THEN << >>
    ELSE IF CharLen(text) <= maxLength THEN text
    ELSE Substring(text, maxLength)

\* Index of the last piece of the run of non-blank pieces that starts at i.
RECURSIVE RunEnd(_, _)
RunEnd(text, i) ==
    IF i < Len(text) /\ ~IsSpace(text[i + 1]) THEN RunEnd(text, i + 1) ELSE i

\* body.match(/https?:\/\/\S+/gim) ?? [], scanning from piece i on.
RECURSIVE MatchesFrom(_, _)
MatchesFrom(text, i) ==
    IF i > Len(text) THEN << >>
    ELSE IF IsScheme(text[i]) /\ i < Len(text) /\ ~IsSpace(text[i + 1])
    THEN << SubSeq(text, i, RunEnd(text, i)) >> \o MatchesFrom(text, RunEnd(text, i) + 1)
    ELSE MatchesFrom(text, i + 1)

\* match.replace(/[).,]+$/, "")
RECURSIVE CleanMatch(_)
CleanMatch(match) ==
    IF match # << >> /\ IsTrailing(match[Len(match)])
    THEN CleanMatch(SubSeq(match, 1, Len(match) - 1))
    ELSE match

\* counts[url]: the number of matches whose cleaned form is url.
CountOf(cleaned, url) == Cardinality({i \in DOMAIN cleaned : cleaned[i] = url})

\* lower.includes(needle), for the strings filterLink searches for.
Includes(lower, needle) == \E i \in DOMAIN lower : lower[i] = needle

\* lower.endsWith(ext)
EndsWith(lower, ext) == lower # << >> /\ lower[Len(lower)] = ext

\* const sigDomains
sigDomains == << "linkedin.com", "facebook.com", "instagram.com", "twitter.com",
                 "youtube.com", "vimeo.com" >>

\* Mutant: the URL is searched as it is written.
LowerForFilter_AsWritten(url) == url

\* const lower = url.toLowerCase();
LowerForFilter(url) == toLowerCase(url)

\* Mutant: a URL on a signature domain is excluded whatever its count.
RepeatedCount_Any(count) == TRUE

\* count > 1
RepeatedCount(count) == count > 1

\* filterLink(url, count)
filterLink(url, count) ==
    LET lower == LowerForFilter(url)
    IN  IF Includes(lower, "safelinks.protection.outlook.com") THEN FALSE
        ELSE IF Includes(lower, "cid:") THEN FALSE
        ELSE IF /\ \E ext \in {".png", ".jpg", ".jpeg", ".gif"} : EndsWith(lower, ext)
                /\ (Includes(lower, "/signature") \/ Includes(lower, "/logo"))
        THEN FALSE
        ELSE IF /\ RepeatedCount(count)
                /\ \E d \in DOMAIN sigDomains : Includes(lower, sigDomains[d])
        THEN FALSE
        ELSE TRUE

\* Mutant: every surviving match is listed.
Unique_KeepAll(seq) == seq

\* Array.from(new Set(seq)): the elements in the order of first appearance.
RECURSIVE Unique(_)
Unique(seq) ==
    IF seq = << >> THEN << >>
    ELSE LET front == Unique(SubSeq(seq, 1, Len(seq) - 1))
             last == seq[Len(seq)]
         IN  IF \E i \in DOMAIN front : front[i] = last THEN front
             ELSE Append(front, last)

\* The cleaned matches of the scanned part of the body, in order.
CleanedMatches(text) ==
    LET matches == MatchesFrom(limitBodyText(text, MaxScanLength), 1)
    IN  [i \in DOMAIN matches |-> CleanMatch(matches[i])]

\* getLinksFromBody, given the text getBodyAsText resolved with.
getLinksFromBody(text) ==
    LET cleaned == CleanedMatches(text)
        Survives(url) == filterLink(url, CountOf(cleaned, url))
    IN  Unique(SelectSeq(cleaned, Survives))

\* ---------------------------------------------- the bodies of the messages
\* The pieces the enumerated bodies are made of.
BodyPieces == {" ", "http://", "a.com/x", "linkedin.com",
               "SafeLinks.Protection.Outlook.com", ".", ")"}

\* "see http://a.com/x and http://a.com/x."
BodySeeTwice == << "see", " ", "http://", "a.com/x", " ", "and", " ",
                   "http://", "a.com/x", "." >>

\* Longer bodies: a repeated plain URL, an image of a signature on a social
\* media domain, URLs that differ in the case of the scheme, an embedded
\* cid: reference, and a URL repeated beyond the scanned part of the text.
LongBodies ==
    { BodySeeTwice,
      << "see", " ", "https://", "linkedin.com", "/logo", ".png", ")", "." >>,
      << "https://", "facebook.com", ",", " ", "HTTP://", "facebook.com", " ",
         "https://", "facebook.com" >>,
      << "http://", "a.com/x", "cid:", " ", "http://", "a.com/x", "/signature", ".gif" >>,
      << "http://", "linkedin.com", Pad, "http://", "linkedin.com" >> }

Bodies == UNION {[1 .. n -> BodyPieces] : n \in 0 .. MaxBodyLen} \cup LongBodies

\* hydrateContext has the body of some message to read.
InitLinks ==
    /\ ConfigComplete
    /\ PipelineIdle
    /\ FormsIdle
    /\ TitlesIdle
    /\ ResolverIdle
    /\ body \in Bodies
    /\ detectedLinks = << >>
    /\ linkRuns = 0

\* detectedLinks = await getLinksFromBody(mailboxItem), getBodyAsText having
\* resolved.  (When getBodyAsText rejects, getLinksFromBody rejects with it
\* and nothing is assigned.)
ExtractLinks ==
    /\ linkRuns < MaxRuns
    /\ detectedLinks' = getLinksFromBody(body)
    /\ linkRuns' = linkRuns + 1
    /\ UNCHANGED << body, pipelineVars, formVars, titleVars, resolverVars >>

NextLinks == ExtractLinks

SpecLinks == InitLinks /\ [][NextLinks]_vars


\* ============================================================ link titles
\* Titles the proxy may report.
Titles == {Val("title", "A"), Val("title", "B")}
\* A title made of white space only.
Blank == Val("blank", "none")

\* The arguments of fetchLinkTitles: lists of links, repetitions included.
LinkLists == UNION {[1 .. n -> TitleLinks] : n \in 0 .. 2}

\* What a lookup may settle with: 2xx with a body whose title is a text, is
\* blank or is absent; a non-2xx status; an exception of fetch or resp.json().
LookupOutcomes ==
    { [kind |-> "ok", title |-> t] : t \in Titles \cup {Blank, Empty} }
    \cup { [kind |-> k, title |-> Empty] : k \in {"notok", "throw"} }

\* (data?.title || "").trim()
TrimTitle(title) == IF title = Blank THEN Empty ELSE title

\* A lookup that is over, with or without a title.
Settled(state) == state \notin {"none", "pending"}

\* Mutant: links that already have a title are looked up again.
UncachedLinks_All(links, cache) == {links[i] : i \in DOMAIN links}

\* Array.from(new Set(links)).filter((l) => !linkTitleCache[l])
UncachedLinks(links, cache) == {l \in {links[i] : i \in DOMAIN links} : ~Truthy(cache[l])}

\* Mutant: no try/catch in the lookup; its promise rejects, and with it
\* Promise.all(tasks) and the call of fetchLinkTitles.
LookupFailed_Uncaught(b, l) ==
    /\ lookups' = [lookups EXCEPT ![b][l] = "failed"]
    /\ batchPc' = [batchPc EXCEPT ![b] = "rejected"]
    /\ UNCHANGED linkTitleCache

\* catch (err) { } of a lookup: after a non-2xx status (throw new Error) or
\* an exception the lookup is over and nothing is stored.
LookupFailed(b, l) ==
    /\ lookups' = [lookups EXCEPT ![b][l] = "failed"]
    /\ UNCHANGED << linkTitleCache, batchPc >>

\* if (title) { linkTitleCache[link] = title; }
StoreTitle(b, l, title) ==
    /\ IF Truthy(title)
       THEN /\ linkTitleCache' = [linkTitleCache EXCEPT ![l] = title]
            /\ lookups' = [lookups EXCEPT ![b][l] = title.of]
       ELSE /\ lookups' = [lookups EXCEPT ![b][l] = "notitle"]
            /\ UNCHANGED linkTitleCache
    /\ UNCHANGED batchPc

\* The pane is loaded with or without a title proxy configured.
InitTitles ==
    /\ ConfigComplete
    /\ PipelineIdle
    /\ FormsIdle
    /\ LinksIdle
    /\ ResolverIdle
    /\ titleProxy \in BOOLEAN
    /\ NoTitles

\* fetchLinkTitles(links) from its entry to await Promise.all(tasks): the
\* early return, or one fetch sent for every link without a cached title.
FetchLinkTitles(b) ==
    /\ batchPc[b] = "idle"
    /\ \E links \in LinkLists :
         IF ~titleProxy \/ links = << >>
         THEN /\ batchPc' = [batchPc EXCEPT ![b] = "resolved"]
              /\ UNCHANGED lookups
         ELSE /\ batchPc' = [batchPc EXCEPT ![b] = "waiting"]
              /\ lookups' = [lookups EXCEPT ![b] =
                    [l \in TitleLinks |->
                        IF l \in UncachedLinks(links, linkTitleCache)
                        THEN "pending" ELSE "none"]]
    /\ UNCHANGED << titleProxy, linkTitleCache, pipelineVars, formVars, linkVars, resolverVars >>

\* The response of one lookup arrives (or its fetch fails) and the rest of
\* the lookup runs.
LookupSettles(b, l) ==
    /\ lookups[b][l] = "pending"
    /\ \E o \in LookupOutcomes :
         IF o.kind # "ok"
         THEN LookupFailed(b, l)
         ELSE StoreTitle(b, l, TrimTitle(o.title))
    /\ UNCHANGED << titleProxy, pipelineVars, formVars, linkVars, resolverVars >>

\* await Promise.all(tasks) resumes: every lookup is over.
BatchResolves(b) ==
    /\ batchPc[b] = "waiting"
    /\ \A l \in TitleLinks : lookups[b][l] # "pending"
    /\ batchPc' = [batchPc EXCEPT ![b] = "resolved"]
    /\ UNCHANGED << titleProxy, linkTitleCache, lookups, pipelineVars, formVars, linkVars, resolverVars >>

\* The caller of fetchLinkTitles goes on; the call can be made again.
BatchReturns(b) ==
    /\ batchPc[b] = "resolved"
    /\ batchPc' = [batchPc EXCEPT ![b] = "idle"]
    /\ lookups' = [lookups EXCEPT ![b] = [l \in TitleLinks |-> "none"]]
    /\ UNCHANGED << titleProxy, linkTitleCache, pipelineVars, formVars, linkVars, resolverVars >>

NextTitles ==
    \E b \in Batches :
        \/ FetchLinkTitles(b)
        \/ \E l \in TitleLinks : LookupSettles(b, l)
        \/ BatchResolves(b)
        \/ BatchReturns(b)

SpecTitles == InitTitles /\ [][NextTitles]_vars


\* ====================================================== reference resolver
\* Here a string is the sequence of its characters.
UpperCaseLetters == << "A", "B", "C", "D", "E", "F", "G", "H", "I", "J", "K", "L", "M",
                       "N", "O", "P", "Q", "R", "S", "T", "U", "V", "W", "X", "Y", "Z" >>
LowerCaseLetters == << "a", "b", "c", "d", "e", "f", "g", "h", "i", "j", "k", "l", "m",
                       "n", "o", "p", "q", "r", "s", "t", "u", "v", "w", "x", "y", "z" >>

LowerChar(c) ==
    IF \E i \in DOMAIN UpperCaseLetters : UpperCaseLetters[i] = c
    THEN LowerCaseLetters[CHOOSE i \in DOMAIN UpperCaseLetters : UpperCaseLetters[i] = c]
    ELSE c

\* Mutant: the strings are compared as they are written.
LowerCaseChars_AsWritten(str) == str

\* str.toLowerCase()
LowerCaseChars(str) == [i \in DOMAIN str |-> LowerChar(str[i])]

\* str.startsWith(prefix)
StartsWith(str, prefix) ==
    Len(str) >= Len(prefix) /\ SubSeq(str, 1, Len(prefix)) = prefix

\* "rec"
RecPrefix == << "r", "e", "c" >>

\* Strings of the options and of the input.
Rec1    == << "r", "e", "c", "1" >>
Rec2    == << "r", "e", "c", "2" >>
Rec9    == << "r", "e", "c", "9" >>
REC1    == << "R", "E", "C", "1" >>
Usr7    == << "u", "s", "r", "7" >>
JaneDoe == << "J", "a", "n", "e", " ", "D", "o", "e" >>
janedoe == << "j", "a", "n", "e", " ", "d", "o", "e" >>
JaneAtX == << "j", "a", "n", "e", "@", "x", ".", "c", "o", "m" >>
JANEATX == << "J", "A", "N", "E", "@", "X", ".", "C", "O", "M" >>
Bob     == << "B", "o", "b" >>
NoMatch == << "n", "o", "m", "a", "t", "c", "h" >>

\* Records fetchExternalPersons may deliver: a person with an e-mail
\* address, a second person of the same name without one, and a record
\* whose id does not start with "rec".  No e-mail address is << >>.
OptionPool ==
    { [id |-> Rec1, name |-> JaneDoe, email |-> JaneAtX],
      [id |-> Rec2, name |-> JaneDoe, email |-> << >>],
      [id |-> Usr7, name |-> Bob,     email |-> << >>] }

OptionLists == UNION {[1 .. n -> OptionPool] : n \in 0 .. 2}

\* Tokens getRecordIdList may deliver (trimmed and not empty).
EntryPool == {Rec1, Rec9, REC1, Usr7, JaneDoe, janedoe, JANEATX, Bob, NoMatch}

EntryLists == UNION {[1 .. n -> EntryPool] : n \in 0 .. MaxEntries}

\* The predicate of externalOptions.find(...)
OptionMatches(opt, entry) ==
    \/ opt.id = entry
    \/ LowerCaseChars(opt.name) = LowerCaseChars(entry)
    \/ (opt.email # << >> /\ LowerCaseChars(opt.email) = LowerCaseChars(entry))

\* What one entry pushes onto ids.
IdsOfEntry(entry, options) ==
    IF StartsWith(entry, RecPrefix) THEN << entry >>
    ELSE LET found == {i \in DOMAIN options : OptionMatches(options[i], entry)}
         IN  IF found = {} THEN << >>
             ELSE << options[CHOOSE i \in found : \A j \in found : i <= j].id >>

\* rawEntries.forEach(...): ids after all entries.
RECURSIVE CollectIds(_, _)
CollectIds(entries, options) ==
    IF entries = << >> THEN << >>
    ELSE IdsOfEntry(Head(entries), options) \o CollectIds(Tail(entries), options)

\* Mutant: the final filter lets every id through.
KeepId_Any(id) == TRUE

\* .filter((id) => id && id.startsWith("rec"))
KeepId(id) == id # << >> /\ StartsWith(id, RecPrefix)

\* resolveExternalAssignees(rawEntries), externalOptions being options.
resolveExternalAssignees(entries, options) ==
    IF entries = << >> THEN << >>
    ELSE SelectSeq(Unique(CollectIds(entries, options)), KeepId)

\* A form holds some tokens; the external persons are not loaded yet.
InitResolver ==
    /\ ConfigComplete
    /\ PipelineIdle
    /\ FormsIdle
    /\ LinksIdle
    /\ TitlesIdle
    /\ externalOptions = << >>
    /\ rawEntries \in EntryLists
    /\ assigneeIds = << >>
    /\ resolverPc = "idle"

\* loadExternalPersons: externalOptions = await fetchExternalPersons(), or
\* [] when that fails.
LoadExternalPersons ==
    /\ resolverPc = "idle"
    /\ externalOptions' \in OptionLists
    /\ resolverPc' = "loaded"
    /\ UNCHANGED << rawEntries, assigneeIds, pipelineVars, formVars, linkVars, titleVars >>

\* A submit handler calls resolveExternalAssignees, before or after the
\* external persons are loaded.
ResolveAssignees ==
    /\ resolverPc \in {"idle", "loaded"}
    /\ assigneeIds' = resolveExternalAssignees(rawEntries, externalOptions)
    /\ resolverPc' = "resolved"
    /\ UNCHANGED << rawEntries, externalOptions, pipelineVars, formVars, linkVars, titleVars >>

NextResolver == LoadExternalPersons \/ ResolveAssignees

SpecResolver == InitResolver /\ [][NextResolver]_vars


\* ====================================================== loading the pane
\* What getLinksFromBody may resolve with: links in some order, none twice.
ExtractedLists == { << >>, << "l1" >>, << "l2" >>, << "l1", "l2" >>, << "l2", "l1" >> }

\* The callback of getBodyAsync / body.getAsync: result.status.
AsyncResultStatus == {"succeeded", "failed"}

\* renderMailHeader ... renderLinkOptions, then getBodyAsText is called.
RenderPane ==
    /\ paneSteps' = paneSteps \cup {"rendered"}
    /\ hydratePc' = "awaitBodyText"

\* reject(result.error) with no handler on the way: the promise of
\* getLinksFromBody or getBodyAsText rejects and hydrateContext with it.
BodyRejected ==
    /\ hydratePc' = "rejected"
    /\ UNCHANGED paneSteps

\* The pane is opened on a message, with or without a title proxy.
InitHydrate ==
    /\ ConfigComplete
    /\ PipelineIdle
    /\ LinksIdle
    /\ ResolverIdle
    /\ SubmitIdle
    /\ OwnerIdle
    /\ ListIdle
    /\ ProxyIdle
    /\ titleProxy \in BOOLEAN
    /\ NoTitles
    /\ HydrateIdle

\* hydrateContext up to its first suspension: the metadata, the sender and
\* the attachments are read, and getLinksFromBody asks for the body text.
HydrateContext ==
    /\ hydratePc = "idle"
    /\ paneSteps' = {"metadata"}
    /\ hydratePc' = "awaitLinksBody"
    /\ UNCHANGED << titlePending, pipelineVars, linkVars, titleVars, resolverVars,
                    submitVars, ownerVars, listVars, proxyVars >>

\* The host answers the body request of getLinksFromBody.  On success the
\* links are extracted and fetchLinkTitles is called: it returns at once, or
\* sends one lookup for every link without a title and waits.
LinksBodyArrives ==
    /\ hydratePc = "awaitLinksBody"
    /\ \E result \in AsyncResultStatus, links \in ExtractedLists :
         IF result = "failed"
         THEN /\ BodyRejected
              /\ UNCHANGED << detectedLinks, titlePending, lookups, batchPc >>
         ELSE /\ detectedLinks' = links
              /\ IF ~titleProxy \/ links = << >>
                 THEN /\ RenderPane
                      /\ UNCHANGED << titlePending, lookups, batchPc >>
                 ELSE /\ titlePending' = TRUE
                      /\ lookups' = [lookups EXCEPT !["first"] =
                            [l \in TitleLinks |->
                                IF l \in UncachedLinks(links, linkTitleCache)
                                THEN "pending" ELSE "none"]]
                      /\ batchPc' = [batchPc EXCEPT !["first"] = "waiting"]
                      /\ hydratePc' = "awaitTitles"
                      /\ UNCHANGED paneSteps
    /\ UNCHANGED << body, linkRuns, titleProxy, linkTitleCache, pipelineVars, resolverVars,
                    submitVars, ownerVars, listVars, proxyVars >>

\* One lookup of hydrateContext's fetchLinkTitles settles.
HydrateLookupSettles(l) ==
    /\ hydratePc = "awaitTitles"
    /\ lookups["first"][l] = "pending"
    /\ \E o \in LookupOutcomes :
         IF o.kind # "ok"
         THEN LookupFailed("first", l)
         ELSE StoreTitle("first", l, TrimTitle(o.title))
    /\ UNCHANGED << titleProxy, hydrateVars, pipelineVars, linkVars, resolverVars,
                    submitVars, ownerVars, listVars, proxyVars >>

\* await fetchLinkTitles(detectedLinks) resumes, every lookup being over:
\* the pane is rendered and the body text is asked for again.
TitlesResolve ==
    /\ hydratePc = "awaitTitles"
    /\ \A l \in TitleLinks : lookups["first"][l] # "pending"
    /\ batchPc' = [batchPc EXCEPT !["first"] = "resolved"]
    /\ titlePending' = FALSE
    /\ RenderPane
    /\ UNCHANGED << titleProxy, linkTitleCache, lookups, pipelineVars, linkVars, resolverVars,
                    submitVars, ownerVars, listVars, proxyVars >>

\* The host answers the body request of hydrateContext itself: the body is
\* filled into the description and the note, or the promise rejects.
BodyTextArrives ==
    /\ hydratePc = "awaitBodyText"
    /\ \E result \in AsyncResultStatus :
         IF result = "failed"
         THEN BodyRejected
         ELSE /\ paneSteps' = paneSteps \cup {"prefilled"}
              /\ hydratePc' = "hydrated"
    /\ UNCHANGED << titlePending, pipelineVars, linkVars, titleVars, resolverVars,
                    submitVars, ownerVars, listVars, proxyVars >>

NextHydrate ==
    \/ HydrateContext
    \/ LinksBodyArrives
    \/ \E l \in TitleLinks : HydrateLookupSettles(l)
    \/ TitlesResolve
    \/ BodyTextArrives

SpecHydrate == InitHydrate /\ [][NextHydrate]_vars


\* ========================================================= owner of a task
\* More strings of the options and of the input.
UsrAbc == << "u", "s", "r", "a", "b", "c" >>
UsrABC == << "u", "s", "r", "A", "B", "C" >>
Usr9   == << "u", "s", "r", "9" >>
BobAtX == << "b", "o", "b", "@", "x", ".", "c", "o", "m" >>
NewAtX == << "n", "e", "w", "@", "x", ".", "c", "o", "m" >>

\* "usr"
UsrPrefix == << "u", "s", "r" >>

\* str.trim(), for strings whose white space is the blank.
RECURSIVE Trim(_)
Trim(str) ==
    IF str = << >> THEN str
    ELSE IF Head(str) = " " THEN Trim(Tail(str))
    ELSE IF str[Len(str)] = " " THEN Trim(SubSeq(str, 1, Len(str) - 1))
    ELSE str

\* value.includes("@")
IncludesAt(str) == \E i \in DOMAIN str : str[i] = "@"

\* Choices fetchCollaborators may deliver; an absent id or email is << >>.
\* The name of a choice without name and email is its id.
CollaboratorPool ==
    { [id |-> Usr7,   email |-> JaneAtX, name |-> JaneDoe],
      [id |-> << >>,  email |-> BobAtX,  name |-> Bob],
      [id |-> UsrAbc, email |-> << >>,   name |-> UsrAbc] }

CollaboratorLists == UNION {[1 .. n -> CollaboratorPool] : n \in 0 .. 2}

\* What the user may have typed into task-owner-input.
OwnerInputs ==
    { << >>, << " " >>, Usr7, Usr9, << " " >> \o Usr9 \o << " " >>, UsrABC, UsrAbc,
      janedoe, JANEATX, Bob, BobAtX, NewAtX, NoMatch }

\* The predicate of collaboratorOptions.find(...) in either function: the
\* same three tests, in a different order.
CollaboratorMatches(c, value) ==
    \/ c.id = value
    \/ (c.email # << >> /\ LowerCaseChars(c.email) = LowerCaseChars(value))
    \/ (c.name # << >> /\ LowerCaseChars(c.name) = LowerCaseChars(value))

\* collaboratorOptions.find(...): the positions of the options that match;
\* find returns the first of them.
MatchingOptions(value, options) ==
    {i \in DOMAIN options : CollaboratorMatches(options[i], value)}

FirstOf(positions) == CHOOSE i \in positions : \A j \in positions : i <= j

\* Mutant: an input that starts with "usr" is returned before the options
\* are searched.
getSelectedInternalOwnerId_DirectFirst(input, options) ==
    LET value == Trim(input)
        found == MatchingOptions(value, options)
    IN  IF value = << >> THEN << >>
        ELSE IF StartsWith(value, UsrPrefix) THEN value
        ELSE IF found # {} /\ options[FirstOf(found)].id # << >>
        THEN options[FirstOf(found)].id
        ELSE << >>

\* getSelectedInternalOwnerId(); undefined is << >>.
getSelectedInternalOwnerId(input, options) ==
    LET value == Trim(input)
        found == MatchingOptions(value, options)
    IN  IF value = << >> THEN << >>
        ELSE IF found # {} /\ options[FirstOf(found)].id # << >>
        THEN options[FirstOf(found)].id
        ELSE IF StartsWith(value, UsrPrefix) THEN value
        ELSE << >>

\* getSelectedInternalOwnerEmail(); undefined is << >>.
getSelectedInternalOwnerEmail(input, options) ==
    LET value == Trim(input)
        found == MatchingOptions(value, options)
    IN  IF value = << >> THEN << >>
        ELSE IF found # {} /\ options[FirstOf(found)].email # << >>
        THEN options[FirstOf(found)].email
        ELSE IF IncludesAt(value) THEN value
        ELSE << >>

\* createTask: fields.fldphfDf5RxQ9zOjt, Empty when the field is not set.
OwnerFieldOf(internalOwnerId, internalOwnerEmail) ==
    IF internalOwnerId # << >> THEN Val("id", internalOwnerId)
    ELSE IF internalOwnerEmail # << >> THEN Val("email", internalOwnerEmail)
    ELSE Empty

\* The task form holds some input; the collaborators are not loaded yet.
InitOwner ==
    /\ ConfigComplete
    /\ PipelineIdle
    /\ LinksIdle
    /\ TitlesIdle
    /\ ResolverIdle
    /\ HydrateIdle
    /\ SubmitIdle
    /\ ListIdle
    /\ ProxyIdle
    /\ collaboratorOptions = << >>
    /\ ownerInput \in OwnerInputs
    /\ ownerField = Empty
    /\ ownerPc = "idle"

\* loadCollaborators: collaboratorOptions = await fetchCollaborators().
LoadCollaborators ==
    /\ ownerPc = "idle"
    /\ collaboratorOptions' \in CollaboratorLists
    /\ ownerPc' = "loaded"
    /\ UNCHANGED << ownerInput, ownerField, pipelineVars, linkVars, titleVars, resolverVars,
                    hydrateVars, submitVars, listVars, proxyVars >>

\* handleTaskSubmit builds the payload and createTask the fields, before or
\* after the collaborators are loaded.
CreateTaskOwner ==
    /\ ownerPc \in {"idle", "loaded"}
    /\ ownerField' = OwnerFieldOf(getSelectedInternalOwnerId(ownerInput, collaboratorOptions),
                                  getSelectedInternalOwnerEmail(ownerInput, collaboratorOptions))
    /\ ownerPc' = "created"
    /\ UNCHANGED << ownerInput, collaboratorOptions, pipelineVars, linkVars, titleVars,
                    resolverVars, hydrateVars, submitVars, listVars, proxyVars >>

NextOwner == LoadCollaborators \/ CreateTaskOwner

SpecOwner == InitOwner /\ [][NextOwner]_vars


\* ========================================================= listing records
\* The records one page may hold.
PageRecords == { << >>, << "r1" >>, << "r2", "r3" >> }

\* The pages of a table as the backend serves them: page i is the answer to
\* the request without offset (i = 1) or with the offset token of page
\* i - 1; it carries the token Val("offset", i) when another page follows.
\* The last page carries none, an earlier page may carry none.
PageLists ==
    UNION { { pages \in [1 .. n -> [records : PageRecords, more : BOOLEAN]] :
                ~pages[n].more } : n \in 1 .. MaxPages }

\* body.offset of page i.
OffsetOf(pages, i) == IF pages[i].more THEN Val("offset", i) ELSE Empty

\* The page the backend answers a request with.
PageFor(param) == IF param = Empty THEN 1 ELSE param.of + 1

\* How a request of listRecords may end: 2xx, a non-2xx status, a rejection
\* of fetch.
ListOutcomes == {"ok", "notok", "failed"}

\* if (offset) params.append("offset", offset), and the request is sent.
RequestPage(off) ==
    /\ listRequests' = Append(listRequests, [offset |-> off, answer |-> "pending"])
    /\ listPc' = "awaitPage"

\* The answer to the request in flight is noted.
Answered(r) ==
    [listRequests EXCEPT ![Len(listRequests)] = [@ EXCEPT !.answer = r]]

\* Mutant: the records of a page replace the records collected so far.
PushRecords_Replace(sofar, records) == records

\* collected.push(...body.records)
PushRecords(sofar, records) == sofar \o records

\* The table has some pages; listRecords has not been called.
InitList ==
    /\ ConfigComplete
    /\ PipelineIdle
    /\ LinksIdle
    /\ TitlesIdle
    /\ ResolverIdle
    /\ HydrateIdle
    /\ OwnerIdle
    /\ ProxyIdle
    /\ backendToken \in BOOLEAN
    /\ NoSubmission
    /\ listPages \in PageLists
    /\ NoListing

\* listRecords up to its first await: [] without a valid token, else the
\* request of the first page.
ListRecords ==
    /\ listPc = "idle"
    /\ IF ~backendToken
       THEN /\ listResult' = Val("records", << >>)
            /\ listPc' = "returned"
            /\ UNCHANGED listRequests
       ELSE /\ RequestPage(Empty)
            /\ UNCHANGED listResult
    /\ UNCHANGED << listPages, listOffset, collected, backendToken, submitPc, status, response,
                    submits, pipelineVars, linkVars, titleVars, resolverVars, hydrateVars,
                    ownerVars, proxyVars >>

\* The request of a page settles: the rest of the loop body, the test of
\* the loop, and either the next request or the return.
PageResponds ==
    /\ listPc = "awaitPage"
    /\ \E r \in ListOutcomes :
         LET page == listPages[PageFor(listRequests[Len(listRequests)].offset)]
             next == OffsetOf(listPages, PageFor(listRequests[Len(listRequests)].offset))
         IN  IF r # "ok"
             THEN /\ listPc' = "thrown"
                  /\ listRequests' = Answered(r)
                  /\ UNCHANGED << listOffset, collected, listResult >>
             ELSE /\ collected' = PushRecords(collected, page.records)
                  /\ listOffset' = next
                  /\ IF Truthy(next)
                     THEN /\ listRequests' =
                                Append(Answered(r), [offset |-> next, answer |-> "pending"])
                          /\ listPc' = "awaitPage"
                          /\ UNCHANGED listResult
                     ELSE /\ listRequests' = Answered(r)
                          /\ listPc' = "returned"
                          /\ listResult' = Val("records", collected')
    /\ UNCHANGED << listPages, backendToken, submitPc, status, response,
                    submits, pipelineVars, linkVars, titleVars, resolverVars, hydrateVars,
                    ownerVars, proxyVars >>

NextList == ListRecords \/ PageResponds

SpecList == InitList /\ [][NextList]_vars


\* ============================================================ submissions
\* How the request of createRecord may end: 2xx with a body that parses, a
\* non-2xx status, a rejection of fetch, 2xx with a body response.json()
\* cannot parse.
RecordOutcomes == {"created", "rejected", "failed", "unparsable"}

\* The status element of a form: setStatus(elementId, message, type).
setStatus(f, type) == status' = [status EXCEPT ![f] = type]

\* The submission of form f is over with createRecord having ended as r.
SubmissionEnds(f, r, type) ==
    /\ setStatus(f, type)
    /\ response' = [response EXCEPT ![f] = Append(@, r)]
    /\ submitPc' = [submitPc EXCEPT ![f] = "idle"]

\* Mutant: the status of the response is not tested.
Throws_NetworkOnly(r) == r \in {"failed", "unparsable"}

\* createRecord throws: fetch rejected, !response.ok, or response.json()
\* rejected.
Throws(r) == r # "created"

\* createRecord(baseId, tableName, fields) up to its fetch, inside
\* executeWithStatus: without a valid token it returns null, await action()
\* resumes and the status is set to "success"; otherwise the request is sent.
createRecord(f) ==
    IF ~backendToken
    THEN SubmissionEnds(f, "notsent", "success")
    ELSE /\ submitPc' = [submitPc EXCEPT ![f] = "awaitRecord"]
         /\ setStatus(f, "pending")
         /\ UNCHANGED response

\* The pane is loaded with or without a backend token or proxy configured.
InitSubmit ==
    /\ ConfigComplete
    /\ PipelineIdle
    /\ LinksIdle
    /\ TitlesIdle
    /\ ResolverIdle
    /\ HydrateIdle
    /\ OwnerIdle
    /\ ListIdle
    /\ ProxyIdle
    /\ backendToken \in BOOLEAN
    /\ NoSubmission

\* handleTaskSubmit, handleDocumentSubmit, handleNoteSubmit up to their first
\* suspension, messageMetadata being set.  The task handler enters
\* executeWithStatus and awaits prepareAirtableAttachments inside it; the
\* document handler awaits prepareAirtableAttachments, when attachments are
\* selected, before it enters executeWithStatus; the note handler enters
\* executeWithStatus and calls createRecord.  One submission of a form is
\* followed here until it is over before the form is submitted again.
HandleSubmit(f) ==
    /\ submitPc[f] = "idle"
    /\ submits < MaxSubmits
    /\ submits' = submits + 1
    /\ \E withAttachments \in BOOLEAN :
         CASE f = "task" ->
                /\ setStatus(f, "pending")
                /\ submitPc' = [submitPc EXCEPT ![f] = "awaitAttachments"]
                /\ UNCHANGED response
           [] f = "document" /\ withAttachments ->
                /\ submitPc' = [submitPc EXCEPT ![f] = "awaitAttachments"]
                /\ UNCHANGED << status, response >>
           [] OTHER -> createRecord(f)
    /\ UNCHANGED << backendToken, pipelineVars, linkVars, titleVars, resolverVars,
                    hydrateVars, ownerVars, listVars, proxyVars >>

\* prepareAirtableAttachments resolves, and the handler goes on to
\* createTask or, through executeWithStatus, to createDocument.
AttachmentsPrepared(f) ==
    /\ submitPc[f] = "awaitAttachments"
    /\ createRecord(f)
    /\ UNCHANGED << backendToken, submits, pipelineVars, linkVars, titleVars, resolverVars,
                    hydrateVars, ownerVars, listVars, proxyVars >>

\* The request of createRecord settles: the rest of createRecord and of
\* executeWithStatus.
RecordResponds(f) ==
    /\ submitPc[f] = "awaitRecord"
    /\ \E r \in RecordOutcomes :
         IF Throws(r)
         THEN SubmissionEnds(f, r, "error")
         ELSE SubmissionEnds(f, r, "success")
    /\ UNCHANGED << backendToken, submits, pipelineVars, linkVars, titleVars, resolverVars,
                    hydrateVars, ownerVars, listVars, proxyVars >>

NextSubmit ==
    \E f \in Forms :
        \/ HandleSubmit(f)
        \/ AttachmentsPrepared(f)
        \/ RecordResponds(f)

SpecSubmit == InitSubmit /\ [][NextSubmit]_vars


\* =========================================================== backend proxy
\* Here a path is the sequence of its segments and of the "/" between them,
\* and AIRTABLE_BASE_ALLOWLIST the sequence of the texts between its commas.
ProxyPaths ==
    { << >>, << "/" >>, << "appA" >>, << "appA", "/", "tblTasks" >>,
      << "/", "/", "appB", "/", "tblTasks" >>, << "appC", "/", "tblTasks" >>,
      << "meta", "/", "bases" >> }

AllowlistEntries == {"appA", " appB ", ""}

AllowlistTexts == UNION {[1 .. n -> AllowlistEntries] : n \in 0 .. 2}

\* .replace(/^\/+/, "")
RECURSIVE StripLeadingSlashes(_)
StripLeadingSlashes(path) ==
    IF path # << >> /\ Head(path) = "/" THEN StripLeadingSlashes(Tail(path)) ELSE path

\* (v) => v.trim(), for the texts of the allowlist.
TrimEntry(v) == IF v = " appB " THEN "appB" ELSE v

\* .split(",").map((v) => v.trim()).filter(Boolean), as the set of its
\* elements (only includes() is applied to it).
ParseAllowlist(texts) == {TrimEntry(texts[i]) : i \in DOMAIN texts} \ {""}

\* path.split("/")[0], the path being without leading slashes.
FirstSegment(path) == IF path = << >> \/ Head(path) = "/" THEN "" ELSE Head(path)

\* Mutant: every base is let through.
BaseAllowed_Any(allowlist, path) == TRUE

\* The test of the allowlist: no allowlist, or the base is in it.
BaseAllowed(allowlist, path) ==
    allowlist = {} \/ FirstSegment(path) \in allowlist

\* context.res = { status, body } of the function itself.
Refuse(code, text) ==
    /\ proxyRes' = [status |-> code, body |-> text]
    /\ proxyPc' = "done"
    /\ UNCHANGED upstream

\* What the upstream request may end with: a response of Airtable with some
\* status, or a rejection of fetch.
UpstreamOutcomes ==
    { [kind |-> "response", status |-> c] : c \in {200, 404, 422} }
    \cup { [kind |-> "failed", status |-> 0] }

\* The function is deployed with some settings and receives some request.
InitProxy ==
    /\ ConfigComplete
    /\ PipelineIdle
    /\ LinksIdle
    /\ TitlesIdle
    /\ ResolverIdle
    /\ HydrateIdle
    /\ SubmitIdle
    /\ OwnerIdle
    /\ ListIdle
    /\ proxyEnv \in [pat : BOOLEAN, allowlist : AllowlistTexts]
    /\ proxyReq \in [path : ProxyPaths, method : {"GET", "POST"}]
    /\ NoInvocation

\* The function from its entry to await fetch(targetUrl, init), or to the
\* return of one of its three checks.
InvokeProxy ==
    /\ proxyPc = "idle"
    /\ LET path == StripLeadingSlashes(proxyReq.path)
           allowlist == ParseAllowlist(proxyEnv.allowlist)
       IN  IF ~proxyEnv.pat THEN Refuse(500, "AIRTABLE_PAT is missing")
           ELSE IF path = << >> THEN Refuse(400, "Missing Airtable path")
           ELSE IF ~BaseAllowed(allowlist, path) THEN Refuse(403, "Base not allowed")
           ELSE /\ upstream' = Append(upstream,
                                  [url |-> << "https://api.airtable.com/v0", "/" >> \o path,
                                   authorization |-> "pat",
                                   method |-> proxyReq.method])
                /\ proxyPc' = "awaitUpstream"
                /\ UNCHANGED proxyRes
    /\ UNCHANGED << proxyEnv, proxyReq, pipelineVars, linkVars, titleVars, resolverVars,
                    hydrateVars, submitVars, ownerVars, listVars >>

\* The upstream request settles: the status and the body of the response
\* are passed on, or the catch answers 500 with the text of the error.
UpstreamResponds ==
    /\ proxyPc = "awaitUpstream"
    /\ \E r \in UpstreamOutcomes :
         proxyRes' = IF r.kind = "failed" THEN [status |-> 500, body |-> "error"]
                     ELSE [status |-> r.status, body |-> "upstream"]
    /\ proxyPc' = "done"
    /\ UNCHANGED << upstream, proxyEnv, proxyReq, pipelineVars, linkVars, titleVars,
                    resolverVars, hydrateVars, submitVars, ownerVars, listVars >>

NextProxy == InvokeProxy \/ UpstreamResponds

SpecProxy == InitProxy /\ [][NextProxy]_vars


\* ================================================================ claims
\* The host reports every content request of att as succeeded, in format
\* fmt, with non-empty content.
HostReportsOnly(att, fmt) ==
    \A r \in HostResults(att.id) :
        r.status = "succeeded" /\ r.format = fmt /\ Truthy(r.content)

IsReference(att) == HostReportsOnly(att, "url")
IsEmbedded(att)  == HostReportsOnly(att, "base64")

\* Suspension points inside getGraphToken and inside uploadToOneDriveAndShare.
TokenStates  == {"awaitRedirect", "awaitSilent", "awaitPopup"}
UploadStates == {"awaitSession", "awaitUpload", "awaitDownloadUrl", "awaitLink"}

\* Number of Delivered attachments among the first i finished positions of p:
\* the place in results of the entry of position i, when it was Delivered.
DeliveredUpTo(p, i) == Cardinality({j \in 1..i : outcome[p][j] = "Delivered"})

\* The Delivered result of the opaque reference of att.
ReferenceEntry(att) == [filename |-> att.name, url |-> Val("ref", att.id)]

\* C1: with a token available, an attachment whose content the host reports
\* as an opaque reference URL is Delivered as {filename: its name, url: that
\* URL}, and no request of the upload path is ever sent for it: while it is
\* the current attachment only the content request is pending.
C1_ReferenceDelivered ==
    \A p \in Handlers : \A i \in 1..Len(selected[p]) :
        (Truthy(graphToken[p]) /\ i \in started[p] /\ IsReference(selected[p][i])) =>
            IF i <= Len(outcome[p])
            THEN /\ outcome[p][i] = "Delivered"
                 /\ DeliveredUpTo(p, i) <= Len(results[p])
                 /\ results[p][DeliveredUpTo(p, i)] = ReferenceEntry(selected[p][i])
            ELSE /\ pc[p] = "awaitContent"
                 /\ calls[p] = {}

\* C1 witness: a batch of the one reference attachment has returned its
\* Delivered entry.
C1_Witness ==
    \E p \in Handlers :
        /\ pc[p] = "done"
        /\ Truthy(graphToken[p])
        /\ Len(selected[p]) = 1
        /\ IsReference(selected[p][1])
        /\ results[p] = << [filename |-> "cloud.docx", url |-> Val("ref", "a2")] >>

\* C2: once getGraphToken has returned no token to a batch that holds an
\* embedded-payload attachment, the batch has returned the empty list: no
\* content was requested, no upload request sent, nothing delivered.
C2_NoTokenEmptyBatch ==
    \A p \in Handlers :
        ( /\ selected[p] # << >>
          /\ pc[p] \notin ({"idle", "awaitToken"} \cup TokenStates)
          /\ ~Truthy(graphToken[p])
          /\ \E i \in 1..Len(selected[p]) : IsEmbedded(selected[p][i]) ) =>
            /\ pc[p] = "done"
            /\ results[p] = << >>
            /\ started[p] = {}
            /\ outcome[p] = << >>
            /\ calls[p] = {}

\* C2 witness: a mixed batch (embedded payload, then reference) has returned
\* [] without a token.
C2_Witness ==
    \E p \in Handlers :
        /\ pc[p] = "done"
        /\ ~Truthy(graphToken[p])
        /\ Len(selected[p]) = 2
        /\ IsEmbedded(selected[p][1])
        /\ IsReference(selected[p][2])
        /\ results[p] = << >>

\* C3 (as claimed): a batch of opaque-reference attachments only returns one
\* Delivered entry per attachment, token or not.
C3_ReferenceBatchNeedsNoToken ==
    \A p \in Handlers :
        ( /\ pc[p] = "done"
          /\ selected[p] # << >>
          /\ \A i \in 1..Len(selected[p]) : IsReference(selected[p][i]) ) =>
            /\ Len(results[p]) = Len(selected[p])
            /\ \A i \in 1..Len(selected[p]) : results[p][i] = ReferenceEntry(selected[p][i])

\* The step of handler p in which an exception of the upload path makes the
\* current attachment Skipped.
ExceptionStep(p) ==
    /\ Len(outcome'[p]) = Len(outcome[p]) + 1
    /\ outcome'[p][Len(outcome'[p])] = "SkippedThrew"

C5_Sequential ==
    \A p \in Handlers :
        /\ started[p] \subseteq 1..(Len(outcome[p]) + 1)
        /\ pc[p] \in (UploadStates \cup {"awaitContent"}) =>
              /\ idx[p] = Len(outcome[p]) + 1
              /\ idx[p] \in started[p]
        /\ calls[p] # {} => pc[p] \in UploadStates

\* C5 witness: the upload of the second attachment is pending after the
\* first reached its terminal state.
C5_Witness ==
    \E p \in Handlers :
        /\ Len(selected[p]) = 2
        /\ idx[p] = 2
        /\ pc[p] = "awaitUpload"
        /\ Len(outcome[p]) = 1
        /\ started[p] = {1, 2}

\* The finished positions of p that were Delivered, in ascending order.
DeliveredPositions(p) ==
    LET IsDelivered(i) == outcome[p][i] = "Delivered"
    IN  SelectSeq([i \in 1..Len(outcome[p]) |-> i], IsDelivered)

\* C6: results is exactly the Delivered attachments in selection order: one
\* entry per Delivered position, none for a Skipped one, and the batch with a
\* token returns when every position is terminal.
C6_OrderedDelivered ==
    \A p \in Handlers :
        LET pos == DeliveredPositions(p)
        IN  /\ Len(outcome[p]) <= Len(selected[p])
            /\ Len(results[p]) = Len(pos)
            /\ \A k \in 1..Len(pos) :
                 /\ results[p][k].filename = selected[p][pos[k]].name
                 /\ results[p][k].url.of = selected[p][pos[k]].id
            /\ (pc[p] = "done" /\ Truthy(graphToken[p])) => Len(outcome[p]) = Len(selected[p])

\* C6 witness: one batch returned two entries, another one entry for its
\* second attachment after the first was Skipped.
C6_Witness ==
    \E p, q \in Handlers :
        /\ pc[p] = "done" /\ Len(results[p]) = 2
        /\ pc[q] = "done" /\ Len(selected[q]) = 2 /\ Len(results[q]) = 1
        /\ outcome[q][1] # "Delivered" /\ outcome[q][2] = "Delivered"

\* C7: every entry of results has a non-empty url, of one of the five kinds
\* the pipeline delivers.
C7_NonEmptyUrl ==
    \A p \in Handlers : \A k \in 1..Len(results[p]) :
        /\ Truthy(results[p][k].url)
        /\ results[p][k].url.kind \in {"ref", "download", "anonymous", "organization", "web"}

\* C7 witness: entries of the paths organization link, reference, plain web
\* URL and direct download URL are held at once.
C7_Witness ==
    \E p, q \in Handlers :
        /\ Len(results[p]) = 2 /\ Len(results[q]) = 2
        /\ results[p][1].url.kind = "organization" /\ results[p][2].url.kind = "ref"
        /\ results[q][1].url.kind = "web" /\ results[q][2].url.kind = "download"

\* The createLink requests.
LinkCalls == {LinkCall(shareScopes[i]) : i \in DOMAIN shareScopes}

\* C8: a URL carried by a response of the upload path is the resolved URL,
\* in the order direct download URL, anonymous link, organization link: the
\* download URL is taken before any share link is requested; an anonymous
\* link is taken after the download URL was asked for and not obtained,
\* the organization scope is not requested and the plain web URL not used;
\* an organization link only after the anonymous request.
C8_UrlPrecedence ==
    [][ \A p \in Handlers :
          (lastUrl'[p] # lastUrl[p] /\ Truthy(lastUrl'[p])) =>
             /\ results'[p] = Append(results[p],
                    [filename |-> selected[p][idx[p]].name, url |-> lastUrl'[p]])
             /\ pc'[p] \notin UploadStates \/ idx'[p] # idx[p]
             /\ lastUrl'[p].kind = "download" => calls[p] \cap LinkCalls = {}
             /\ lastUrl'[p].kind = "anonymous" =>
                   /\ "downloadUrl" \in calls[p]
                   /\ "createLink_organization" \notin calls[p]
             /\ lastUrl'[p].kind = "organization" =>
                   {"downloadUrl", "createLink_anonymous"} \subseteq calls[p] ]_vars

\* C8 witness: the anonymous link has just been delivered.
C8_Witness ==
    \E p \in Handlers :
        /\ lastUrl[p] = Val("anonymous", "a1")
        /\ Len(results[p]) = 1
        /\ results[p][1].url = Val("anonymous", "a1")

\* C9: the cache, once set, is never cleared, and a call of getGraphToken
\* that starts with the cache set has returned the cached token at once,
\* without any step towards the identity provider.
C9_MemoizedToken ==
    /\ [][ Truthy(cachedGraphToken) => Truthy(cachedGraphToken') ]_vars
    /\ [] ( \A p \in Handlers :
              Truthy(cacheAtCall[p]) =>
                 /\ pc[p] = "awaitToken"
                 /\ graphToken[p] = cacheAtCall[p]
                 /\ idpLog[p] = << >> )

\* C9 witness: a call that started with the cache set has returned.
C9_Witness ==
    \E p \in Handlers : pc[p] = "awaitToken" /\ Truthy(cacheAtCall[p])

\* One of the three configuration values is absent.
ConfigAbsent == \E f \in {"clientId", "redirectUri", "tenantId"} : ~config[f]

\* C10: with a configuration value absent, getGraphToken returns no token
\* without suspending: the client is not constructed, no step towards the
\* identity provider is taken and the cache stays unset.
C10_MissingConfigFailsFast ==
    ConfigAbsent =>
        /\ msalInstance = FALSE
        /\ cachedGraphToken = Empty
        /\ \A p \in Handlers :
             /\ pc[p] \notin TokenStates
             /\ pc[p] = "awaitToken" => (graphToken[p] = Empty /\ idpLog[p] = << >>)

\* C10 witness: getGraphToken has returned with only the tenant absent.
C10_Witness ==
    \E p \in Handlers :
        /\ pc[p] = "awaitToken"
        /\ config = [clientId |-> TRUE, redirectUri |-> TRUE, tenantId |-> FALSE]

\* Elements of a sequence.
Range(seq) == {seq[i] : i \in DOMAIN seq}

\* The call of p has just taken the exit of the catch block.
Threw(p) == "threw" \in Range(idpLog[p])

\* C11: an exception at any step of getGraphToken (construction of the
\* client, completion of the redirect, the account lookup, the silent or the
\* interactive acquisition) ends the call with null: the call returns to its
\* caller instead of rejecting, and the cached token is what it was.
C11_ExceptionYieldsNull ==
    [][ \A p \in Handlers :
          (Threw(p)' /\ ~Threw(p)) =>
             /\ pc'[p] = "awaitToken"
             /\ graphToken'[p] = Empty
             /\ cachedGraphToken' = cachedGraphToken ]_vars

\* C11 witness: the interactive acquisition of one handler threw while the
\* cache held the token stored by the other handler's call.
C11_Witness ==
    \E p \in Handlers :
        /\ pc[p] = "awaitToken"
        /\ Threw(p)
        /\ "popup" \in Range(idpLog[p])
        /\ graphToken[p] = Empty
        /\ Truthy(cachedGraphToken)

\* Names of the tokens, as the history records a step that yielded one.
TokenNames == {t.of : t \in Tokens}

IsAcquisitionStep(s) == s \in {"redirect", "silent", "popup"}

\* The steps towards the identity provider a call has taken, in order.
StepsTaken(log) == SelectSeq(log, IsAcquisitionStep)

\* C12: a call that passes the cache and the configuration check tries the
\* pending redirect, then the silent reacquisition (exactly when an account
\* is cached), then the pop-up; the step that yields a token ends the call:
\* that token is stored in the cache and returned, and no step follows it.
C12_AcquisitionOrder ==
    /\ [] ( \A p \in Handlers :
              /\ StepsTaken(idpLog[p]) \in
                    { << >>, << "redirect" >>, << "redirect", "silent" >>,
                      << "redirect", "popup" >>,
                      << "redirect", "silent", "popup" >> }
              /\ "silent" \in Range(idpLog[p]) <=> "account" \in Range(idpLog[p])
              /\ \A i \in DOMAIN idpLog[p] :
                    idpLog[p][i] \in TokenNames =>
                       /\ i = Len(idpLog[p])
                       /\ pc[p] = "awaitToken"
                       /\ graphToken[p] = Val("token", idpLog[p][i]) )
    /\ [][ \A p \in Handlers :
             (idpLog'[p] # idpLog[p] /\ idpLog'[p] # << >>
                  /\ idpLog'[p][Len(idpLog'[p])] \in TokenNames) =>
                /\ cachedGraphToken' = Val("token", idpLog'[p][Len(idpLog'[p])])
                /\ graphToken'[p] = cachedGraphToken' ]_vars

\* C12 witness: the redirect and the silent reacquisition yielded no token
\* and the pop-up yielded T2, which is returned and cached.
C12_Witness ==
    \E p \in Handlers :
        /\ idpLog[p] = << "construct", "redirect", "account", "silent", "popup", "T2" >>
        /\ pc[p] = "awaitToken"
        /\ graphToken[p] = Val("token", "T2")
        /\ cachedGraphToken = Val("token", "T2")

\* Names of the attachments of the message that are flagged inline.
InlineNames == {attachments[i].name : i \in {j \in DOMAIN attachments : attachments[j].isInline}}

\* C20: whatever check box values a submission carries, the list a handler
\* passes to prepareAirtableAttachments holds no inline attachment, no
\* result is produced for one, and no rendered choice is one.
C20_InlineNeverSelected ==
    /\ \A i \in DOMAIN RenderedChoices : ~RenderedChoices[i].isInline
    /\ \A p \in Handlers :
         /\ \A i \in DOMAIN selected[p] : ~selected[p][i].isInline
         /\ \A i \in DOMAIN results[p] : results[p][i].filename \notin InlineNames

\* C20 witness: a handler is inside the pipeline with a full selection and a
\* first result, the message having an inline attachment.
C20_Witness ==
    /\ InlineNames # {}
    /\ \E p \in Handlers :
         /\ Len(selected[p]) = MaxSelected
         /\ Len(results[p]) = 1
         /\ pc[p] = "awaitContent"

\* ------------------------------------------------ link extraction claims
\* Position of the first element of seq equal to x.
FirstIndex(seq, x) == CHOOSE i \in DOMAIN seq : seq[i] = x /\ \A j \in 1 .. i - 1 : seq[j] # x

\* The matches of the regular expression in the whole text, as written.
RawMatches(text) == MatchesFrom(text, 1)

\* A match without the characters ')', '.' and ',' at its end.
RECURSIVE Stripped(_)
Stripped(match) ==
    IF match = << >> THEN match
    ELSE IF match[Len(match)] \in {")", ".", ","} THEN Stripped(SubSeq(match, 1, Len(match) - 1))
    ELSE match

\* C13: the output of getLinksFromBody has no duplicates, lists the
\* surviving cleaned matches in the order of their first appearance, holds
\* no URL with ')', '.' or ',' at its end (matches that differ only there are
\* one URL), is ["http://a.com/x"] for "see http://a.com/x and
\* http://a.com/x.", and is the same when the body is extracted again.
C13_ExtractionDeterministic ==
    /\ [] ( linkRuns > 0 =>
              LET out == detectedLinks
                  cleaned == CleanedMatches(body)
              IN  /\ \A i, j \in DOMAIN out : i # j => out[i] # out[j]
                  /\ \A i \in DOMAIN out : Stripped(out[i]) = out[i]
                  /\ {out[i] : i \in DOMAIN out} =
                        {cleaned[k] : k \in {n \in DOMAIN cleaned :
                            filterLink(cleaned[n], CountOf(cleaned, cleaned[n]))}}
                  /\ \A i, j \in DOMAIN out :
                        i < j => FirstIndex(cleaned, out[i]) < FirstIndex(cleaned, out[j])
                  /\ \A m, n \in DOMAIN RawMatches(body) :
                        Stripped(RawMatches(body)[m]) = Stripped(RawMatches(body)[n]) =>
                           Cardinality({i \in DOMAIN out :
                                          out[i] = Stripped(RawMatches(body)[m])}) <= 1
                  /\ body = BodySeeTwice => out = << << "http://", "a.com/x" >> >> )
    /\ [][ linkRuns > 0 => detectedLinks' = detectedLinks ]_vars

\* C13 witness: the body of the example has been extracted twice.
C13_Witness ==
    /\ body = BodySeeTwice
    /\ linkRuns = 2
    /\ detectedLinks = << << "http://", "a.com/x" >> >>

\* The URL names a social media domain of the signature list.
OnSocialDomain(url) ==
    \E d \in DOMAIN sigDomains : Includes(toLowerCase(url), sigDomains[d])

\* The URL is one the rules before the signature-domain rule exclude.
ExcludedRegardless(url) ==
    LET lower == toLowerCase(url)
    IN  \/ Includes(lower, "safelinks.protection.outlook.com")
        \/ Includes(lower, "cid:")
        \/ /\ lower[Len(lower)] \in {".png", ".jpg", ".jpeg", ".gif"}
           /\ (Includes(lower, "/signature") \/ Includes(lower, "/logo"))

\* The cleaned matches of the whole body, scanned or not.
AllCleaned(text) == [i \in DOMAIN RawMatches(text) |-> Stripped(RawMatches(text)[i])]

Listed(url) == \E i \in DOMAIN detectedLinks : detectedLinks[i] = url

\* C14 as stated: a URL on a social media domain is listed when its cleaned
\* form occurs exactly once in the body, and is not listed when it occurs
\* twice or more.
C14_SocialOnceKept ==
    linkRuns > 0 =>
        LET all == AllCleaned(body)
        IN  \A k \in DOMAIN all :
               OnSocialDomain(all[k]) =>
                  (Listed(all[k]) <=> CountOf(all, all[k]) = 1)

\* C14 amended: a URL on a social media domain that no earlier rule excludes
\* is listed when its cleaned form occurs exactly once in the scanned part
\* of the body, and is not listed when it occurs there twice or more.
C14_SocialOnceKeptInScannedText ==
    linkRuns > 0 =>
        LET cleaned == CleanedMatches(body)
        IN  \A k \in DOMAIN cleaned :
               (OnSocialDomain(cleaned[k]) /\ ~ExcludedRegardless(cleaned[k])) =>
                  (Listed(cleaned[k]) <=> CountOf(cleaned, cleaned[k]) = 1)

\* C14 witness: of two URLs on social media domains the one written once is
\* listed and the one written twice is not.
C14_Witness ==
    /\ linkRuns > 0
    /\ body = << "https://", "facebook.com", ",", " ", "HTTP://", "facebook.com", " ",
                 "https://", "facebook.com" >>
    /\ detectedLinks = << << "HTTP://", "facebook.com" >> >>

\* C15: no listed URL contains safelinks.protection.outlook.com, in whatever
\* letter case it is written and however often it occurs.
C15_NoSafelinks ==
    linkRuns > 0 =>
        \A i \in DOMAIN detectedLinks :
            ~Includes(toLowerCase(detectedLinks[i]), "safelinks.protection.outlook.com")

\* C15 witness: the body holds a safelinks URL written in mixed case and a
\* plain URL; only the plain one is listed.
C15_Witness ==
    /\ linkRuns > 0
    /\ body = << "http://", "SafeLinks.Protection.Outlook.com", " ", "http://", "a.com/x" >>
    /\ detectedLinks = << << "http://", "a.com/x" >> >>

\* ---------------------------------------------------- link title claims
\* The lookup of link l in call b ends in this step without a title.
EndsWithoutTitle(b, l) ==
    lookups[b][l] = "pending" /\ lookups'[b][l] \in {"failed", "notitle"}

\* C16: a lookup that ends without a title (non-2xx, exception, no title)
\* leaves the cache and every other lookup as they are and is not sent
\* again by its call; a lookup that ends with a title has it stored under
\* its link; the call never rejects, and it resolves once every lookup is
\* over, not before.
C16_FailedLookupIsolated ==
    /\ [][ \A b \in Batches : \A l \in TitleLinks :
             /\ EndsWithoutTitle(b, l) =>
                   /\ linkTitleCache' = linkTitleCache
                   /\ batchPc' = batchPc
                   /\ \A c \in Batches : \A k \in TitleLinks :
                         << c, k >> # << b, l >> => lookups'[c][k] = lookups[c][k]
             /\ (Settled(lookups[b][l]) /\ batchPc[b] = "waiting") =>
                   lookups'[b][l] = lookups[b][l]
             /\ (lookups[b][l] = "pending" /\ lookups'[b][l] \in {"A", "B"}) =>
                   linkTitleCache'[l] = Val("title", lookups'[b][l]) ]_vars
    /\ [] ( \A b \in Batches :
              /\ batchPc[b] \in {"idle", "waiting", "resolved"}
              /\ batchPc[b] = "resolved" => \A l \in TitleLinks : lookups[b][l] # "pending"
              /\ (batchPc[b] = "waiting" /\ \A l \in TitleLinks : lookups[b][l] # "pending")
                    => ENABLED BatchResolves(b) )

\* C16 witness: a call has resolved after one of its lookups failed and the
\* other one delivered a title, which is in the cache.
C16_Witness ==
    \E b \in Batches :
        /\ batchPc[b] = "resolved"
        /\ lookups[b]["l1"] = "failed"
        /\ lookups[b]["l2"] = "A"
        /\ linkTitleCache["l1"] = Empty
        /\ linkTitleCache["l2"] = Val("title", "A")

EqualUpToCase(a, b) ==
    Len(a) = Len(b) /\ \A i \in DOMAIN a : LowerChar(a[i]) = LowerChar(b[i])

\* The token names the option by its id, its name or its e-mail address,
\* whatever the case of the letters.
NamesOption(entry, opt) ==
    \/ EqualUpToCase(entry, opt.id)
    \/ EqualUpToCase(entry, opt.name)
    \/ (opt.email # << >> /\ EqualUpToCase(entry, opt.email))

Resolved(id) == \E i \in DOMAIN assigneeIds : assigneeIds[i] = id

\* C18: the result of resolveExternalAssignees has no duplicates, each of
\* its elements starts with "rec" and is a token of the input that starts
\* with "rec" or the id of a loaded option that a token names; for the
\* option {rec1, Jane Doe, jane@x.com} and the tokens "Jane Doe", "rec1",
\* "nomatch" it is ["rec1"].
C18_ResolvedIds ==
    resolverPc = "resolved" =>
        /\ \A i, j \in DOMAIN assigneeIds : i # j => assigneeIds[i] # assigneeIds[j]
        /\ \A i \in DOMAIN assigneeIds :
              /\ SubSeq(assigneeIds[i], 1, 3) = << "r", "e", "c" >>
              /\ \/ \E k \in DOMAIN rawEntries : rawEntries[k] = assigneeIds[i]
                 \/ \E k \in DOMAIN rawEntries : \E j \in DOMAIN externalOptions :
                       /\ externalOptions[j].id = assigneeIds[i]
                       /\ NamesOption(rawEntries[k], externalOptions[j])
        /\ ( /\ externalOptions = << [id |-> Rec1, name |-> JaneDoe, email |-> JaneAtX] >>
             /\ rawEntries = << JaneDoe, Rec1, NoMatch >> )
              => assigneeIds = << Rec1 >>

\* C18 witness: the example of the claim has been resolved.
C18_Witness ==
    /\ resolverPc = "resolved"
    /\ externalOptions = << [id |-> Rec1, name |-> JaneDoe, email |-> JaneAtX] >>
    /\ rawEntries = << JaneDoe, Rec1, NoMatch >>
    /\ assigneeIds = << Rec1 >>

\* C19 as stated: a token without the prefix that equals the id, the name or
\* the e-mail address of an option up to letter case resolves to the id of
\* that option.
C19_CaseInsensitiveMatch ==
    resolverPc = "resolved" =>
        \A k \in DOMAIN rawEntries : \A j \in DOMAIN externalOptions :
            ( /\ SubSeq(rawEntries[k], 1, 3) # << "r", "e", "c" >>
              /\ NamesOption(rawEntries[k], externalOptions[j]) )
               => Resolved(externalOptions[j].id)

\* The token names the option by its id as written, or by its name or its
\* e-mail address whatever the case of the letters.
NamesOptionIdExact(entry, opt) ==
    \/ entry = opt.id
    \/ EqualUpToCase(entry, opt.name)
    \/ (opt.email # << >> /\ EqualUpToCase(entry, opt.email))

\* C19 amended: a token without the prefix resolves to the id of the first
\* option it names by name or e-mail address up to letter case, or by id as
\* written, if that id starts with "rec"; a token that names no option so
\* adds nothing.
C19_FirstMatchIdExact ==
    resolverPc = "resolved" =>
        \A k \in DOMAIN rawEntries :
            SubSeq(rawEntries[k], 1, 3) # << "r", "e", "c" >> =>
                LET named == {j \in DOMAIN externalOptions :
                                NamesOptionIdExact(rawEntries[k], externalOptions[j])}
                    others == {rawEntries[n] : n \in DOMAIN rawEntries \ {k}}
                IN  /\ \A j \in named :
                          ( /\ \A i \in named : j <= i
                            /\ SubSeq(externalOptions[j].id, 1, 3) = << "r", "e", "c" >> )
                           => Resolved(externalOptions[j].id)
                    /\ (named = {} /\ others = {}) => assigneeIds = << >>

\* C19 witness: the e-mail address written in capitals resolved to the id
\* of the person.
C19_Witness ==
    /\ resolverPc = "resolved"
    /\ rawEntries = << JANEATX >>
    /\ externalOptions # << >>
    /\ assigneeIds = << Rec1 >>

\* ------------------------------------------------ claims on the upload path
\* The step of handler p in which a result is pushed.
Pushed(p) == Len(results'[p]) = Len(results[p]) + 1

\* C23 as stated: the plain web URL of the uploaded item is pushed as the
\* resolved URL only after a share link was requested for both scopes, and
\* an anonymous request answered without a link is followed by the
\* organization request.
C23_WebUrlAfterBothScopes ==
    [][ \A p \in Handlers :
          /\ (Pushed(p) /\ results'[p][Len(results'[p])].url.kind = "web") =>
                LinkCalls \subseteq calls[p]
          /\ ( /\ pc[p] = "awaitLink" /\ scopeIdx[p] = 1
               /\ << pc[p], scopeIdx[p], calls[p] >>' # << pc[p], scopeIdx[p], calls[p] >>
               /\ Len(outcome'[p]) = Len(outcome[p]) ) =>
                "createLink_organization" \in calls'[p] ]_vars

\* The step of handler p in which uploadToOneDriveAndShare returns null.
ReturnsNull(p) ==
    /\ Len(outcome'[p]) = Len(outcome[p]) + 1
    /\ outcome'[p][Len(outcome'[p])] = "SkippedNoUrl"

\* C24: when uploadToOneDriveAndShare returns null on the response of the
\* session request, no byte upload was sent; when it returns null on the
\* response of the byte upload, no download URL and no share link was asked
\* for; in both cases nothing is pushed, and the loop goes on.
C24_EarlyExits ==
    [][ \A p \in Handlers :
          ReturnsNull(p) =>
             /\ results'[p] = results[p]
             /\ pc[p] = "awaitSession" => calls[p] = {"createUploadSession"}
             /\ pc[p] = "awaitUpload" => calls[p] = {"createUploadSession", "upload"}
             /\ pc'[p] = IF idx[p] < Len(selected[p]) THEN "awaitContent" ELSE "done" ]_vars

\* C24 witness: the only selected attachment, an embedded payload, was
\* skipped with a null result and the batch returned nothing.
C24_Witness ==
    \E p \in Handlers :
        /\ pc[p] = "done"
        /\ Len(selected[p]) = 1
        /\ outcome[p] = << "SkippedNoUrl" >>
        /\ results[p] = << >>

\* C29 as stated: at most one handler has a silent or interactive
\* acquisition in flight, and a token in the cache is never replaced by a
\* different one.
C29_SingleAcquisition ==
    /\ [] ( Cardinality({p \in Handlers : pc[p] \in {"awaitSilent", "awaitPopup"}}) <= 1 )
    /\ [][ Truthy(cachedGraphToken) => cachedGraphToken' = cachedGraphToken ]_vars

\* ------------------------------------------- the count behind the exclusion
\* C25 as stated: a URL on a social media domain whose cleaned form occurs
\* more than once in the whole body, wherever the occurrences are, is not
\* listed.
C25_CountsWholeBody ==
    linkRuns > 0 =>
        LET all == AllCleaned(body)
        IN  \A k \in DOMAIN all :
               (OnSocialDomain(all[k]) /\ CountOf(all, all[k]) > 1) => ~Listed(all[k])

\* C25 amended: the count is taken over the first 12000 characters of the
\* body.  A URL on a social media domain that no earlier rule excludes is
\* listed when it occurs once there, however often it occurs after them, and
\* is not listed when it occurs there twice or more; a URL that occurs only
\* after them is not listed.
C25_CountsScannedText ==
    linkRuns > 0 =>
        LET scanned == AllCleaned(Substring(body, MaxScanLength))
        IN  /\ \A k \in DOMAIN scanned :
                  (OnSocialDomain(scanned[k]) /\ ~ExcludedRegardless(scanned[k])) =>
                     /\ CountOf(scanned, scanned[k]) = 1 => Listed(scanned[k])
                     /\ CountOf(scanned, scanned[k]) > 1 => ~Listed(scanned[k])
            /\ \A i \in DOMAIN detectedLinks :
                  \E k \in DOMAIN scanned : scanned[k] = detectedLinks[i]

\* C25 witness: a URL on linkedin.com written once within the first 12000
\* characters and once after them is listed.
C25_Witness ==
    /\ linkRuns > 0
    /\ body = << "http://", "linkedin.com", Pad, "http://", "linkedin.com" >>
    /\ CharLen(SubSeq(body, 1, 3)) >= MaxScanLength
    /\ CountOf(AllCleaned(body), << "http://", "linkedin.com" >>) = 2
    /\ detectedLinks = << << "http://", "linkedin.com" >> >>

\* ------------------------------------------------------ submission claims
\* The last element of a non-empty sequence.
Last(seq) == seq[Len(seq)]

\* The step in which the submission of form f ends with createRecord having
\* ended as r.
SubmissionEndsAs(f, r) == Len(response'[f]) = Len(response[f]) + 1 /\ Last(response'[f]) = r

\* C21: a non-2xx response on record creation ends the submission with the
\* status "error", never "success", straight from "pending"; the step
\* changes nothing of the other forms, and the form can be submitted again,
\* its handler being back where a submission starts.
C21_RejectionEndsInError ==
    /\ [][ \A f \in Forms :
             SubmissionEndsAs(f, "rejected") =>
                /\ status[f] = "pending"
                /\ status'[f] = "error"
                /\ submitPc'[f] = "idle"
                /\ \A g \in Forms \ {f} :
                      /\ submitPc'[g] = submitPc[g]
                      /\ status'[g] = status[g]
                      /\ response'[g] = response[g] ]_vars
    /\ [] ( \A f \in Forms :
              (submitPc[f] = "idle" /\ response[f] # << >> /\ Last(response[f]) = "rejected") =>
                 status[f] = "error" )

\* C21 witness: the task form was submitted twice; the backend rejected the
\* first record and created the second.
C21_Witness ==
    /\ response["task"] = << "rejected", "created" >>
    /\ status["task"] = "success"

\* C28 as stated: a form shows "success" only if the backend created the
\* record of its last submission.
C28_SuccessMeansCreated ==
    \A f \in Forms :
        status[f] = "success" => (response[f] # << >> /\ Last(response[f]) = "created")

\* ------------------------------------------------------------ owner claims
\* The input as the functions read it, and the option find() returns for it.
OwnerValue == Trim(ownerInput)
OwnerMatched == MatchingOptions(OwnerValue, collaboratorOptions) # {}
OwnerMatch == collaboratorOptions[FirstOf(MatchingOptions(OwnerValue, collaboratorOptions))]

\* C26 as stated: the owner field holds one id or one email, chosen in the
\* order: the input itself when it is an id ("usr..."), the id of the
\* matched option, the email of the matched option, the input itself when
\* it looks like an email address; it is absent when the input is empty.
C26_OwnerPriorityDirectFirst ==
    ownerPc = "created" =>
        ownerField =
            IF OwnerValue = << >> THEN Empty
            ELSE IF StartsWith(OwnerValue, UsrPrefix) THEN Val("id", OwnerValue)
            ELSE IF OwnerMatched /\ OwnerMatch.id # << >> THEN Val("id", OwnerMatch.id)
            ELSE IF OwnerMatched /\ OwnerMatch.email # << >> THEN Val("email", OwnerMatch.email)
            ELSE IF IncludesAt(OwnerValue) THEN Val("email", OwnerValue)
            ELSE Empty

\* C26 amended: the order is: the id of the matched option, the input itself
\* when it starts with "usr", the email of the matched option, the input
\* itself when it contains "@"; the field is absent when the trimmed input
\* is empty or none of the four is available.
C26_OwnerPriorityMatchFirst ==
    ownerPc = "created" =>
        /\ ownerField.kind \in {"empty", "id", "email"}
        /\ ownerField =
            IF OwnerValue = << >> THEN Empty
            ELSE IF OwnerMatched /\ OwnerMatch.id # << >> THEN Val("id", OwnerMatch.id)
            ELSE IF StartsWith(OwnerValue, UsrPrefix) THEN Val("id", OwnerValue)
            ELSE IF OwnerMatched /\ OwnerMatch.email # << >> THEN Val("email", OwnerMatch.email)
            ELSE IF IncludesAt(OwnerValue) THEN Val("email", OwnerValue)
            ELSE Empty

\* C26 witness: the user typed "usrABC"; the only option it matches, by its
\* name in lower case, has the id "usrabc", and that id is written.
C26_Witness ==
    /\ ownerPc = "created"
    /\ ownerInput = UsrABC
    /\ collaboratorOptions = << [id |-> UsrAbc, email |-> << >>, name |-> UsrAbc] >>
    /\ ownerField = Val("id", UsrAbc)

\* ---------------------------------------------------------- listing claims
\* Number of the first page that carries no offset token.
LastServed(pages) == CHOOSE k \in DOMAIN pages : ~pages[k].more /\ \A j \in 1 .. k - 1 : pages[j].more

\* The records of the pages 1 .. k, in the order of the pages.
RECURSIVE RecordsUpTo(_, _)
RecordsUpTo(pages, k) ==
    IF k = 0 THEN << >> ELSE RecordsUpTo(pages, k - 1) \o pages[k].records

\* C27: with a backend configured, request i of a call carries the offset
\* token of page i - 1 (the first carries none) and is sent only after page
\* i - 1 arrived with a token; a call that returned sent one request per
\* page up to the first page without token and returned the records of those
\* pages in their order; a request answered with a non-2xx status, or not at
\* all, is the last one, and the call throws without returning a list.
C27_Pagination ==
    /\ \A i \in DOMAIN listRequests :
          /\ listRequests[i].offset = IF i = 1 THEN Empty ELSE Val("offset", i - 1)
          /\ i > 1 => (listRequests[i - 1].answer = "ok" /\ listPages[i - 1].more)
          /\ listRequests[i].answer \in {"notok", "failed"} =>
                (i = Len(listRequests) /\ listPc = "thrown")
    /\ listPc = "thrown" => listResult = Empty
    /\ listPc # "returned" => listResult = Empty
    /\ (listPc = "returned" /\ backendToken) =>
          /\ Len(listRequests) = LastServed(listPages)
          /\ listResult = Val("records", RecordsUpTo(listPages, LastServed(listPages)))

\* C27 witness: three pages were requested one after the other and their
\* records were returned in the order of the pages.
C27_Witness ==
    /\ listPc = "returned"
    /\ Len(listRequests) = 3
    /\ listRequests[3].offset = Val("offset", 2)
    /\ listResult = Val("records", << "r2", "r3", "r1", "r2", "r3" >>)

\* ------------------------------------------------------------ proxy claims
\* The base a forwarded request addresses: the segment after /v0/.
TargetBase(request) == request.url[3]

\* The bases the settings allow, and the base the request names.
AllowedBases == {TrimEntry(proxyEnv.allowlist[i]) : i \in DOMAIN proxyEnv.allowlist} \ {""}
AllowlistSet == \E i \in DOMAIN proxyEnv.allowlist : proxyEnv.allowlist[i] # ""
PathGiven == \E i \in DOMAIN proxyReq.path : proxyReq.path[i] # "/"
NamedBase == proxyReq.path[CHOOSE i \in DOMAIN proxyReq.path :
                              proxyReq.path[i] # "/" /\ \A j \in 1 .. i - 1 : proxyReq.path[j] = "/"]

\* C30: once the function has run its checks, a missing secret was answered
\* with 500, else a missing path with 400, else a base outside a non-empty
\* allowlist with 403, each without an upstream request; otherwise exactly
\* one request was forwarded.  A forwarded request addresses an allowlisted
\* base whenever an allowlist is set, and the secret appears in forwarded
\* requests only, never in the function's own answer.
C30_ChecksBeforeForwarding ==
    /\ proxyPc # "idle" =>
          IF ~proxyEnv.pat
          THEN proxyRes = [status |-> 500, body |-> "AIRTABLE_PAT is missing"] /\ upstream = << >>
          ELSE IF ~PathGiven
          THEN proxyRes = [status |-> 400, body |-> "Missing Airtable path"] /\ upstream = << >>
          ELSE IF AllowlistSet /\ NamedBase \notin AllowedBases
          THEN proxyRes = [status |-> 403, body |-> "Base not allowed"] /\ upstream = << >>
          ELSE Len(upstream) = 1
    /\ proxyPc = "idle" => upstream = << >>
    /\ \A i \in DOMAIN upstream :
          /\ proxyEnv.pat
          /\ AllowlistSet => TargetBase(upstream[i]) \in AllowedBases
    /\ proxyRes # Empty => proxyRes.body # "pat"

\* C30 witness: with the allowlist " appB ,appA" the request for
\* //appB/tblTasks was forwarded to the base appB and answered.
C30_Witness ==
    /\ proxyPc = "done"
    /\ proxyEnv = [pat |-> TRUE, allowlist |-> << " appB ", "appA" >>]
    /\ proxyReq.path = << "/", "/", "appB", "/", "tblTasks" >>
    /\ Len(upstream) = 1
    /\ TargetBase(upstream[1]) = "appB"
    /\ proxyRes.status = 200

\* ------------------------------------------------------- failure isolation
\* C22 as stated: whatever a collaborator reports, neither hydrateContext nor
\* prepareAirtableAttachments rejects, and once hydrateContext is over the
\* pane has been rendered and the body filled in.
C22_NothingRejects ==
    /\ hydratePc # "rejected"
    /\ \A p \in Handlers : pc[p] # "rejected"
    /\ hydratePc = "hydrated" => {"rendered", "prefilled"} \subseteq paneSteps

====
